---------------------------- MODULE Spec2Model ----------------------------
(***************************************************************************)
(* A model of the workflow orchestrator of backend/main.py: the            *)
(* topological scheduler (topological_sort) and the graph executor         *)
(* (execute_workflow_graph) with its primitive, fan-out and composite      *)
(* steps.                                                                  *)
(***************************************************************************)
EXTENDS Integers, Sequences, FiniteSets, TLC

VARIABLES
    sched_in,    \* the (nodes, edges) handed to topological_sort
    sched_out,   \* what topological_sort gave for sched_in, once called
    request,     \* the body of the /api/run_workflow request being served
    stack,       \* the activations of execute_workflow_graph, outermost first
    ret,         \* what the activation that just ended hands to its caller
    resp,        \* what run_workflow_endpoint gave for request
    calls,       \* the JSON-RPC requests posted so far for request
    replies,     \* what the agents answered, replies[i] to calls[i]
    clock,       \* what time.monotonic() has advanced by since the step began
    earlier,     \* the replies and the response of the request's first run
    ALL_AGENTS_CACHE,  \* the global list of agent cards, line 511
    COMPOSITE_AGENTS_FILE,  \* the composite definitions the file holds
    registering  \* the calls of register_composite, each with its place

schedVars == <<sched_in, sched_out>>
timedVars == <<clock, earlier>>
cacheVars == <<ALL_AGENTS_CACHE, COMPOSITE_AGENTS_FILE, registering>>
execVars  == <<request, stack, ret, resp, calls, replies, clock, earlier, ALL_AGENTS_CACHE,
               COMPOSITE_AGENTS_FILE, registering>>
vars == <<sched_in, sched_out, request, stack, ret, resp, calls, replies, clock, earlier,
          ALL_AGENTS_CACHE, COMPOSITE_AGENTS_FILE, registering>>

(***************************************************************************)
(* Bounds of the model.                                                    *)
(***************************************************************************)
MaxNodes == 3
MaxEdges == 3
MaxSteps == 2
MaxItems == 2
MaxDepth == 3
MaxWriters == 3
MaxDuration == 2

NodeIds == {"n1", "n2", "n3"}

\* All sequences over S of length at most n.
SeqsUpTo(S, n) == UNION {[1..k -> S] : k \in 0..n}

Range(s) == {s[i] : i \in DOMAIN s}

\* The ids of a list of nodes.
IdsOf(nodes) == {nodes[i].id : i \in DOMAIN nodes}

(***************************************************************************)
(* topological_sort (Kahn's algorithm), lines 241-263.                     *)
(***************************************************************************)

\* The keys of {node.id: ... for node in nodes}: a dict keeps one key per id,
\* in the order of the first occurrence.
DictKeys(nodes) ==
    LET F[i \in 0..Len(nodes)] ==
            IF i = 0 THEN <<>>
            ELSE IF nodes[i].id \in Range(F[i-1]) THEN F[i-1]
                 ELSE Append(F[i-1], nodes[i].id)
    IN F[Len(nodes)]

\* The edges the first loop keeps: both endpoints are in node_map.
KnownEdges(nodes, edges) ==
    LET ids == {nodes[i].id : i \in DOMAIN nodes}
    IN SelectSeq(edges, LAMBDA e : e.source \in ids /\ e.target \in ids)

\* Mutant: self-loops are not counted.
InitialInDegree_NoSelfLoops(nodes, edges) ==
    LET ke == KnownEdges(nodes, edges)
    IN [id \in Range(DictKeys(nodes)) |->
            Cardinality({i \in DOMAIN ke : ke[i].target = id /\ ke[i].source # id})]

\* in_degree after the edge loop: one increment per kept edge into the id.
InitialInDegree(nodes, edges) ==
    LET ke == KnownEdges(nodes, edges)
    IN [id \in Range(DictKeys(nodes)) |->
            Cardinality({i \in DOMAIN ke : ke[i].target = id})]

\* successors[u]: the targets of the kept edges out of u, in edge order.
Successors(nodes, edges, u) ==
    LET ke == KnownEdges(nodes, edges)
        F[i \in 0..Len(ke)] ==
            IF i = 0 THEN <<>>
            ELSE IF ke[i].source = u THEN Append(F[i-1], ke[i].target)
                 ELSE F[i-1]
    IN F[Len(ke)]

\* Mutant: the zero test reads the in-degree before the decrement.
RECURSIVE RelaxSuccessors_TestBeforeDecrement(_, _, _)
RelaxSuccessors_TestBeforeDecrement(succ, queue, in_degree) ==
    IF succ = <<>> THEN [queue |-> queue, in_degree |-> in_degree]
    ELSE LET v   == Head(succ)
             deg == [in_degree EXCEPT ![v] = @ - 1]
         IN RelaxSuccessors_TestBeforeDecrement(Tail(succ),
                IF in_degree[v] = 0 THEN Append(queue, v) ELSE queue, deg)

\* The inner loop "for v in successors[u]": decrement, enqueue on zero.
RECURSIVE RelaxSuccessors(_, _, _)
RelaxSuccessors(succ, queue, in_degree) ==
    IF succ = <<>> THEN [queue |-> queue, in_degree |-> in_degree]
    ELSE LET v   == Head(succ)
             deg == [in_degree EXCEPT ![v] = @ - 1]
         IN RelaxSuccessors(Tail(succ),
                            IF deg[v] = 0 THEN Append(queue, v) ELSE queue,
                            deg)

\* Mutant: the loop takes the step queued last.
RECURSIVE KahnLoop_TakesLast(_, _, _, _, _)
KahnLoop_TakesLast(nodes, edges, queue, sorted_order, in_degree) ==
    IF queue = <<>> THEN [sorted_order |-> sorted_order, in_degree |-> in_degree]
    ELSE LET u == queue[Len(queue)]
             r == RelaxSuccessors(Successors(nodes, edges, u),
                                  SubSeq(queue, 1, Len(queue) - 1), in_degree)
         IN KahnLoop_TakesLast(nodes, edges, r.queue, Append(sorted_order, u),
                               r.in_degree)

\* The loop "while queue": pop the head, append it to sorted_order, relax.
RECURSIVE KahnLoop(_, _, _, _, _)
KahnLoop(nodes, edges, queue, sorted_order, in_degree) ==
    IF queue = <<>> THEN [sorted_order |-> sorted_order, in_degree |-> in_degree]
    ELSE LET u == Head(queue)
             r == RelaxSuccessors(Successors(nodes, edges, u), Tail(queue), in_degree)
         IN KahnLoop(nodes, edges, r.queue, Append(sorted_order, u), r.in_degree)

\* Mutant: the error names every step of the graph.
topological_sort_NamesEveryStep(nodes, edges) ==
    LET keys  == DictKeys(nodes)
        deg0  == InitialInDegree(nodes, edges)
        queue == SelectSeq(keys, LAMBDA id : deg0[id] = 0)
        k     == KahnLoop(nodes, edges, queue, <<>>, deg0)
    IN IF Len(k.sorted_order) # Len(nodes)
       THEN [raised |-> TRUE, status_code |-> 400, order |-> k.sorted_order,
             cycle_nodes |-> keys, in_degree |-> k.in_degree]
       ELSE [raised |-> FALSE, status_code |-> 200, order |-> k.sorted_order,
             cycle_nodes |-> <<>>, in_degree |-> k.in_degree]

\* topological_sort: the order, or the HTTPException(400) with cycle_nodes.
topological_sort(nodes, edges) ==
    LET keys  == DictKeys(nodes)
        deg0  == InitialInDegree(nodes, edges)
        queue == SelectSeq(keys, LAMBDA id : deg0[id] = 0)
        k     == KahnLoop(nodes, edges, queue, <<>>, deg0)
    IN IF Len(k.sorted_order) # Len(nodes)
       THEN [raised |-> TRUE, status_code |-> 400, order |-> k.sorted_order,
             cycle_nodes |-> SelectSeq(keys, LAMBDA id : k.in_degree[id] > 0),
             in_degree |-> k.in_degree]
       ELSE [raised |-> FALSE, status_code |-> 200, order |-> k.sorted_order,
             cycle_nodes |-> <<>>, in_degree |-> k.in_degree]

(***************************************************************************)
(* The scheduler on its own: the graph is drawn at the start, Schedule     *)
(* applies topological_sort to it.                                         *)
(***************************************************************************)
PlainNode(id) == [id |-> id, agent |-> "agent", method |-> "method"]

SchedGraphs ==
    [nodes : {[i \in DOMAIN s |-> PlainNode(s[i])] : s \in SeqsUpTo(NodeIds, MaxNodes)},
     edges : SeqsUpTo([source : NodeIds, target : NodeIds], MaxEdges)]

NotScheduled == [called |-> FALSE]

SchedInit ==
    /\ sched_in \in SchedGraphs
    /\ sched_out = NotScheduled
    /\ request = [arrived |-> FALSE]
    /\ stack = <<>>
    /\ ret = [kind |-> "none"]
    /\ resp = [kind |-> "none"]
    /\ calls = <<>>
    /\ replies = <<>>
    /\ clock = 1
    /\ earlier = [done |-> FALSE]
    /\ ALL_AGENTS_CACHE = <<>>
    /\ COMPOSITE_AGENTS_FILE = <<>>
    /\ registering = <<>>

Schedule ==
    /\ sched_out = NotScheduled
    /\ sched_out' = [called |-> TRUE,
                     result |-> topological_sort(sched_in.nodes, sched_in.edges)]
    /\ UNCHANGED <<sched_in, execVars>>

SchedNext == Schedule

SchedSpec == SchedInit /\ [][SchedNext]_vars

(***************************************************************************)
(* JSON values as the executor sees them: a tag and a payload.  A dict's   *)
(* payload is a function from its keys; global_state, inputs_used and a    *)
(* call's params are such functions themselves.                            *)
(***************************************************************************)
VNull    == <<"null">>
VStr(s)  == <<"str", s>>
VInt(n)  == <<"int", n>>
VBool(b) == <<"bool", b>>
VList(q) == <<"list", q>>
VDict(f) == <<"dict", f>>
VFloat(n) == <<"float", n>>

IsNull(v) == v[1] = "null"
IsStr(v)  == v[1] = "str"
IsInt(v)  == v[1] = "int"
IsBool(v) == v[1] = "bool"
IsList(v) == v[1] = "list"
IsDict(v) == v[1] = "dict"
IsFloat(v) == v[1] = "float"

EmptyDict == [k \in {} |-> VNull]

\* d.get(k): None when the key is absent.
DictGet(d, k) == IF k \in DOMAIN d THEN d[k] ELSE VNull

\* d.update(o): the keys of o overwrite, the other keys of d stay.
DictUpdate(d, o) ==
    [k \in DOMAIN d \cup DOMAIN o |-> IF k \in DOMAIN o THEN o[k] ELSE d[k]]

\* d[k] = v
DictSet(d, k, v) == [x \in DOMAIN d \cup {k} |-> IF x = k THEN v ELSE d[x]]

\* Python's truth value of v ("not v" is its negation).
Truthy(v) ==
    CASE IsNull(v) -> FALSE
      [] IsBool(v) -> v[2]
      [] IsInt(v)  -> v[2] # 0
      [] IsFloat(v) -> v[2] # 0
      [] IsStr(v)  -> v[2] # ""
      [] IsList(v) -> Len(v[2]) > 0
      [] IsDict(v) -> DOMAIN v[2] # {}

(***************************************************************************)
(* The agent cards of ALL_AGENTS_CACHE as refresh_agent_cache builds them  *)
(* (lines 520-548): base agents from the registry first, composite agents  *)
(* from the composite store after them.  url "" stands for no url.         *)
(***************************************************************************)
Node(id, agent, method) == [id |-> id, agent |-> agent, method |-> method]
Edge(source, target) == [source |-> source, target |-> target]

NoDefinition == [present |-> FALSE, nodes |-> <<>>, edges |-> <<>>]

BaseCard(name, url, url_ext, methods) ==
    [name |-> name, url |-> url, url_ext |-> url_ext, methods |-> methods,
     is_composite |-> FALSE, composite_definition |-> NoDefinition]

CompositeCard(name, nodes, edges) ==
    [name |-> name, url |-> "", url_ext |-> "",
     methods |-> <<[name |-> "run", params |-> <<>>, returns |-> <<>>]>>,
     is_composite |-> TRUE,
     composite_definition |-> [present |-> TRUE, nodes |-> nodes, edges |-> edges]]

\* An entry of a method's "params": a dict, or (BareParam) only the name.
Param(name, type, required) ==
    [shape |-> "dict", name |-> name, type |-> type, required |-> required]
BareParam(name) ==
    [shape |-> "str", name |-> name, type |-> "string", required |-> FALSE]

Catalogue ==
    << BaseCard("search_agent", "http://search", "",
           <<[name |-> "search", params |-> <<>>, returns |-> <<>>]>>),
       BaseCard("score_agent", "http://score-internal", "http://score",
           <<[name |-> "score",
              params |-> <<Param("x", "integer", TRUE)>>,
              returns |-> <<>>]>>),
       BaseCard("dbservice_agent", "http://db", "",
           <<[name |-> "create_record", params |-> <<>>, returns |-> <<>>]>>),
       CompositeCard("pipeline",
           <<Node("p1", "dbservice_agent", "create_record"),
             Node("p2", "search_agent", "search")>>,
           <<Edge("p1", "p2")>>),
       CompositeCard("outer",
           <<Node("o1", "search_agent", "search"),
             Node("o2", "pipeline", "run")>>,
           <<>>),
       BaseCard("legacy_agent", "http://legacy", "",
           <<[name |-> "run", params |-> <<BareParam("x")>>, returns |-> <<>>]>>),
       CompositeCard("knot",
           <<Node("k1", "search_agent", "search"),
             Node("k2", "search_agent", "search")>>,
           <<Edge("k2", "k2")>>) >>

\* A composite definition as the file holds it, and the definitions a file
\* holds from which refresh_agent_cache built the composite cards of a list.
Definition(name, nodes, edges) == [name |-> name, nodes |-> nodes, edges |-> edges]

StoredDefinitions(cards) ==
    LET composite == SelectSeq(cards, LAMBDA c : c.is_composite)
    IN [i \in DOMAIN composite |->
            Definition(composite[i].name, composite[i].composite_definition.nodes,
                       composite[i].composite_definition.edges)]

\* _get_agent_details, lines 234-239: the first card of that name.
GetAgentDetails(agent_name, all_agents) ==
    LET hits == {i \in DOMAIN all_agents : all_agents[i].name = agent_name}
    IN IF hits = {} THEN [found |-> FALSE]
       ELSE [found |-> TRUE,
             card |-> all_agents[CHOOSE i \in hits : \A j \in hits : i <= j]]

(***************************************************************************)
(* a2a_call, lines 172-216.  The reply is what the HTTP exchange gave:     *)
(*   result        HTTP 200 with a "result" member (value)                 *)
(*   rpc_error     HTTP 200 with an "error" member                         *)
(*   http_status   a status other than 200                                 *)
(*   read_timeout  httpx.ReadTimeout                                       *)
(*   timeout       another httpx.TimeoutException                          *)
(*   connect_error another httpx.RequestError                              *)
(*   bad_body      HTTP 200 whose body is not JSON                         *)
(* The outcome is the value returned, or the exception raised.             *)
(***************************************************************************)
Returned(v) == [kind |-> "return", value |-> v]
AgentError(detail) == [kind |-> "AgentError", detail |-> detail]
HTTPException(status_code, detail) ==
    [kind |-> "HTTPException", status_code |-> status_code, detail |-> detail]

ErrorDetail(message, code) == VDict([message |-> VStr(message), code |-> VInt(code)])

a2a_call(reply) ==
    CASE reply.kind = "result"        -> Returned(reply.value)
      [] reply.kind = "rpc_error"     -> AgentError(ErrorDetail("remote error", -32603))
      [] reply.kind = "http_status"   ->
            AgentError(VDict([message |-> VStr("Agent returned HTTP 500"),
                              data |-> VStr("body")]))
      [] reply.kind = "read_timeout"  -> AgentError(ErrorDetail("Request timed out", -32000))
      [] reply.kind = "timeout"       ->
            AgentError(ErrorDetail("Request timed out (ConnectTimeout)", -32000))
      [] reply.kind = "connect_error" ->
            HTTPException(503, "Service Unavailable: Could not connect to agent")
      [] reply.kind = "bad_body"      ->
            AgentError(ErrorDetail("Unexpected client error", -32001))

\* The JSON-RPC request a2a_call posts (line 175): rpc_id is call_id or node_id;
\* item is the index of the fan-out item, -1 for a call that has no call_id.
RpcRequest(agent_url, method, params, node_id, item) ==
    [url |-> agent_url, method |-> method, params |-> params,
     node_id |-> node_id, item |-> item]

(***************************************************************************)
(* Parameter binding of the default path, lines 393-455.                   *)
(***************************************************************************)
\* Mutant: the case of a string is kept.
Lower_KeepsCase(s) == s

\* str.lower() on the strings that occur (type names and state values).
Lower(s) ==
    CASE s = "Integer" -> "integer"
      [] s = "Boolean" -> "boolean"
      [] s = "Array[String]" -> "array[string]"
      [] s \in {"True", "TRUE"} -> "true"
      [] s \in {"False", "FALSE"} -> "false"
      [] s \in {"Yes", "YES"} -> "yes"
      [] s \in {"No", "NO"} -> "no"
      [] OTHER -> s

\* Mutant: only the empty string is blank.
IsBlank_OnlyEmpty(s) == s = ""

\* str.strip() == "" on the strings that occur.
IsBlank(s) == s \in {"", " ", "  "}

\* The strings int() accepts, with their values.
IntLiterals == [s \in {"0", "1", "42"} |-> CASE s = "0" -> 0 [] s = "1" -> 1 [] s = "42" -> 42]

\* json.loads on the strings that occur: the value, or a JSONDecodeError.
JsonLoads(s) ==
    CASE s \in DOMAIN IntLiterals -> [ok |-> TRUE, value |-> VInt(IntLiterals[s])]
      [] s = "true"  -> [ok |-> TRUE, value |-> VBool(TRUE)]
      [] s = "false" -> [ok |-> TRUE, value |-> VBool(FALSE)]
      [] s = "null"  -> [ok |-> TRUE, value |-> VNull]
      [] s = "[]"    -> [ok |-> TRUE, value |-> VList(<<>>)]
      [] s = "[1]"   -> [ok |-> TRUE, value |-> VList(<<VInt(1)>>)]
      [] s = "{}"    -> [ok |-> TRUE, value |-> VDict(EmptyDict)]
      [] OTHER       -> [ok |-> FALSE, value |-> VNull]

\* s.split(',') with each piece stripped, on the strings that occur.
SplitComma(s) ==
    CASE s = "a,b,c" -> <<VStr("a"), VStr("b"), VStr("c")>>
      [] s = "a, b"  -> <<VStr("a"), VStr("b")>>
      [] s = ","     -> <<VStr(""), VStr("")>>
      [] OTHER       -> <<VStr(s)>>

\* Mutant: every string counts as a comma-separated list.
HasComma_Always(s) == TRUE

HasComma(s) == s \in {"a,b,c", "a, b", ","}

StartsWithArray(t) == t \in {"array", "array[string]", "array[integer]"}

Converted(v) == [ok |-> TRUE, value |-> v]
ConversionError == [ok |-> FALSE, value |-> VNull]

\* Lines 414-447: the value sent for raw under the declared type, or the
\* ValueError, TypeError or JSONDecodeError of the conversion.
ConvertValue(type, raw) ==
    CASE type = "integer" ->
            (CASE IsInt(raw)   -> Converted(raw)
               [] IsFloat(raw) -> Converted(VInt(raw[2]))
               [] IsBool(raw)  -> Converted(VInt(IF raw[2] THEN 1 ELSE 0))
               [] IsStr(raw) /\ raw[2] \in DOMAIN IntLiterals ->
                                  Converted(VInt(IntLiterals[raw[2]]))
               [] OTHER -> ConversionError)
      [] type \in {"number", "float"} ->
            (CASE IsInt(raw)   -> Converted(VFloat(raw[2]))
               [] IsFloat(raw) -> Converted(raw)
               [] IsBool(raw)  -> Converted(VFloat(IF raw[2] THEN 1 ELSE 0))
               [] IsStr(raw) /\ raw[2] \in DOMAIN IntLiterals ->
                                  Converted(VFloat(IntLiterals[raw[2]]))
               [] OTHER -> ConversionError)
      [] type = "boolean" ->
            (IF IsStr(raw)
             THEN LET val_lower == Lower(raw[2])
                  IN CASE val_lower \in {"true", "1", "yes"}  -> Converted(VBool(TRUE))
                       [] val_lower \in {"false", "0", "no"}  -> Converted(VBool(FALSE))
                       [] OTHER -> ConversionError
             ELSE Converted(VBool(Truthy(raw))))
      [] StartsWithArray(type) ->
            (CASE IsStr(raw) ->
                    (LET parsed == JsonLoads(raw[2])
                     IN IF parsed.ok
                        THEN IF IsList(parsed.value) THEN Converted(parsed.value)
                             ELSE ConversionError
                        ELSE IF type = "array[string]" /\ HasComma(raw[2])
                             THEN Converted(VList(SplitComma(raw[2])))
                             ELSE ConversionError)
               [] IsList(raw) -> Converted(raw)
               [] OTHER -> ConversionError)
      [] type = "object" ->
            (CASE IsStr(raw) ->
                    (LET parsed == JsonLoads(raw[2])
                     IN IF parsed.ok /\ IsDict(parsed.value)
                        THEN Converted(parsed.value) ELSE ConversionError)
               [] IsDict(raw) -> Converted(raw)
               [] OTHER -> ConversionError)
      [] OTHER -> Converted(raw)

\* The loop over expected_param_definitions, lines 393-455: the params to
\* send and the inputs recorded, or the AgentError that ends the step, or
\* (crashed) the AttributeError of p_def.get on an entry that is not a dict.
RECURSIVE BindParams(_, _, _, _)
BindParams(p_defs, global_state, params_to_send, inputs_recorded) ==
    IF p_defs = <<>>
    THEN [ok |-> TRUE, params |-> params_to_send, inputs |-> inputs_recorded]
    ELSE
      LET p_def    == Head(p_defs)
          name     == p_def.name
          recorded == DictSet(inputs_recorded, name, DictGet(global_state, name))
          required == p_def.required
          type     == Lower(p_def.type)
      IN IF p_def.shape # "dict" THEN [ok |-> FALSE, crashed |-> TRUE]
         ELSE IF name = ""
         THEN BindParams(Tail(p_defs), global_state, params_to_send, inputs_recorded)
         ELSE IF name \in DOMAIN global_state
         THEN LET raw == global_state[name]
              IN IF ~required /\ IsStr(raw) /\ IsBlank(raw[2])
                 THEN BindParams(Tail(p_defs), global_state, params_to_send, recorded)
                 ELSE IF IsNull(raw) /\ ~required
                 THEN BindParams(Tail(p_defs), global_state,
                                 DictSet(params_to_send, name, VNull), recorded)
                 ELSE LET c == ConvertValue(type, raw)
                      IN IF c.ok
                         THEN BindParams(Tail(p_defs), global_state,
                                         DictSet(params_to_send, name, c.value), recorded)
                         ELSE [ok |-> FALSE, crashed |-> FALSE,
                               error |-> VDict([message |-> VStr("Invalid input format"),
                                                param |-> VStr(name)])]
         ELSE IF required
         THEN [ok |-> FALSE, crashed |-> FALSE,
               error |-> VDict([message |-> VStr("Missing required input"),
                                param |-> VStr(name)])]
         ELSE BindParams(Tail(p_defs), global_state, params_to_send, recorded)

\* Lines 374-377: the first method of the card with that name.
FindMethod(card, method_name) ==
    LET hits == {i \in DOMAIN card.methods : card.methods[i].name = method_name}
    IN IF hits = {} THEN [found |-> FALSE]
       ELSE [found |-> TRUE,
             def |-> card.methods[CHOOSE i \in hits : \A j \in hits : i <= j]]

\* Mutant: the declared return field is not looked at.
ResultKey_AlwaysSentinel(method_def) == "$result"

\* Lines 386-391: the key a result that is not a dict is stored under.
ResultKey(method_def) ==
    LET returns_defs == method_def.returns
    IN IF Len(returns_defs) = 1 /\ returns_defs[1].name # ""
          /\ returns_defs[1].name # "$result"
       THEN returns_defs[1].name
       ELSE "$result"

(***************************************************************************)
(* execute_workflow_graph, lines 266-507.  One activation is a frame of    *)
(* stack; pc is the place of the activation in the function:               *)
(*   loop          at the head of "for node_id in execution_order"         *)
(*   await_call    suspended in a2a_call of the default path (line 465)    *)
(*   item_loop     at the head of the loop over candidates (line 341)      *)
(*   await_item    suspended in a2a_call for one candidate (line 349)      *)
(*   in_composite  suspended in the nested execute_workflow_graph (308)    *)
(***************************************************************************)
NoReturn == [kind |-> "none"]

\* WorkflowExecutionResponse
Response(status, logs, final_state) ==
    [kind |-> "response", status |-> status, logs |-> logs, final_state |-> final_state]

\* (node_end_time - node_start_time) * 1000, lines 319, 368, 480, 491.
Stamped == VFloat(clock)

\* ExecutionLog(..., status="pending", inputs_used={}, output=None), line 294.
PendingLog(node) ==
    [nodeId |-> node.id, agent |-> node.agent, method |-> node.method,
     status |-> "pending", inputs_used |-> EmptyDict, output |-> VNull,
     duration_ms |-> VNull, details |-> VNull]

NoLocals ==
    [agent_url |-> "", result_key |-> "", candidates_to_save |-> <<>>, index |-> 0,
     individual_results |-> <<>>, success_count |-> 0, error_count |-> 0]

NoLog == [nodeId |-> ""]

\* node_map[node_id]: of two nodes with one id the dict keeps the later.
NodeById(nodes, node_id) ==
    nodes[CHOOSE i \in DOMAIN nodes :
             /\ nodes[i].id = node_id
             /\ \A j \in DOMAIN nodes : nodes[j].id = node_id => j <= i]

\* Mutant: the steps ordered before the cycle was found are run.
Enter_RunsPartialOrder(nodes, edges, initial_inputs, all_agents_cache) ==
    LET sorted == topological_sort(nodes, edges)
    IN IF sorted.order = <<>>
       THEN [entered |-> FALSE, ret |-> Response("completed", <<>>, EmptyDict)]
       ELSE [entered |-> TRUE,
             frame |-> [nodes |-> nodes, edges |-> edges,
                        execution_order |-> sorted.order, pos |-> 1,
                        global_state |-> initial_inputs, logs |-> <<>>,
                        workflow_status |-> "completed",
                        all_agents_cache |-> all_agents_cache,
                        pc |-> "loop", log_entry |-> NoLog, locals |-> NoLocals]]

\* Lines 273-287: the activation's start.  It ends at once with the
\* HTTPException of topological_sort or with the response for an empty
\* order, or it enters the loop.
Enter(nodes, edges, initial_inputs, all_agents_cache) ==
    LET sorted == topological_sort(nodes, edges)
    IN IF sorted.raised
       THEN [entered |-> FALSE,
             ret |-> HTTPException(400, "Workflow graph contains a cycle.")]
       ELSE IF sorted.order = <<>> /\ nodes # <<>>
       THEN [entered |-> FALSE,
             ret |-> HTTPException(400, "Cannot determine workflow start node.")]
       ELSE IF sorted.order = <<>>
       THEN [entered |-> FALSE, ret |-> Response("completed", <<>>, EmptyDict)]
       ELSE [entered |-> TRUE,
             frame |-> [nodes |-> nodes, edges |-> edges,
                        execution_order |-> sorted.order, pos |-> 1,
                        global_state |-> initial_inputs, logs |-> <<>>,
                        workflow_status |-> "completed",
                        all_agents_cache |-> all_agents_cache,
                        pc |-> "loop", log_entry |-> NoLog, locals |-> NoLocals]]

\* What one step of an activation does: the frame it leaves (or, when the
\* activation ends, what it returns or raises), the activation it starts,
\* and the requests it posts.
Go(f)        == [ended |-> FALSE, frame |-> f, push |-> <<>>, ret |-> NoReturn, posted |-> <<>>]
Post(f, rpc) == [ended |-> FALSE, frame |-> f, push |-> <<>>, ret |-> NoReturn, posted |-> <<rpc>>]
End(r)       == [ended |-> TRUE, frame |-> <<>>, push |-> <<>>, ret |-> r, posted |-> <<>>]

\* Mutant: the failed step is logged and the loop goes on to the next step.
NodeFailed_GoesOn(f, exc) ==
    LET error_detail ==
            IF exc.kind = "AgentError" THEN VDict([error |-> exc.detail])
            ELSE VDict([error |-> VDict([message |-> VStr(exc.detail),
                                         code |-> VInt(exc.status_code)])])
        entry == [f.log_entry EXCEPT !.status = "error", !.output = error_detail,
                                     !.duration_ms = Stamped]
    IN Go([f EXCEPT !.logs = Append(f.logs, entry), !.pos = f.pos + 1,
                    !.pc = "loop", !.workflow_status = "failed",
                    !.log_entry = NoLog, !.locals = NoLocals])

\* Lines 475-481: a step's HTTPException or AgentError ends the activation
\* with verdict failed.
NodeFailed(f, exc) ==
    LET error_detail ==
            IF exc.kind = "AgentError" THEN VDict([error |-> exc.detail])
            ELSE VDict([error |-> VDict([message |-> VStr(exc.detail),
                                         code |-> VInt(exc.status_code)])])
        entry == [f.log_entry EXCEPT !.status = "error", !.output = error_detail,
                                     !.duration_ms = Stamped]
    IN End(Response("failed", Append(f.logs, entry), f.global_state))

\* Lines 483-487: any other exception of a step is logged and raised as an
\* HTTPException(500), which leaves the activation through line 498.
NodeCrashed(f) ==
    End(HTTPException(500, "Unexpected internal error processing node"))

\* Mutant: the entry of a step that is done is not appended.
NodeDone_SkipsLog(f, entry) ==
    Go([f EXCEPT !.pos = f.pos + 1, !.pc = "loop",
                 !.log_entry = NoLog, !.locals = NoLocals])

\* Lines 490-492: the step's entry is stamped and appended, the loop goes on.
NodeDone(f, entry) ==
    Go([f EXCEPT !.logs = Append(f.logs, [entry EXCEPT !.duration_ms = Stamped]),
                 !.pos = f.pos + 1, !.pc = "loop",
                 !.log_entry = NoLog, !.locals = NoLocals])

(***************************************************************************)
(* The fan-out of dbservice_agent.create_record, lines 328-369.            *)
(***************************************************************************)

\* Mutant: the type of skills is not looked at.
ValidCandidate_AnySkills(candidate) ==
    /\ IsDict(candidate)
    /\ LET name   == DictGet(candidate[2], "name")
           title  == DictGet(candidate[2], "title")
           skills == DictGet(candidate[2], "skills")
       IN ~(~Truthy(name) \/ ~Truthy(title) \/ IsNull(skills))

\* Lines 344-347: a candidate is saved only when it is a dict with a name
\* and a title that are not empty and with a list of skills.
ValidCandidate(candidate) ==
    /\ IsDict(candidate)
    /\ LET name   == DictGet(candidate[2], "name")
           title  == DictGet(candidate[2], "title")
           skills == DictGet(candidate[2], "skills")
       IN /\ ~(~Truthy(name) \/ ~Truthy(title) \/ IsNull(skills))
          /\ IsList(skills)

ItemResult(candidate, status, output) ==
    [input_candidate |-> candidate, status |-> status, output |-> output]

\* Mutant: the entry of a fan-out of which some items failed says success.
FanOutLogStatus_HidesFailedItems(success_count, error_count) ==
    IF error_count > 0 /\ success_count = 0 THEN "error" ELSE "success"

\* Line 358: the status of the step's log entry.
FanOutLogStatus(success_count, error_count) ==
    IF error_count > 0 /\ success_count = 0 THEN "error"
    ELSE IF error_count > 0 THEN "partial_success"
    ELSE "success"

\* Mutant: a fan-out with failed items is never fatal.
FanOutNodeStatus_NeverFatal(success_count) == "partial_success"

\* Line 363: what the step contributes to the verdict when an item failed.
FanOutNodeStatus(success_count) ==
    IF success_count = 0 THEN "failed" ELSE "partial_success"

\* Mutant: an empty list is processed like any other list.
FanOutBegin_NoEmptyCase(f, agent_url) ==
    LET candidates_to_save == DictGet(f.global_state, "$result")
    IN IF ~IsList(candidates_to_save)
       THEN NodeFailed(f, AgentError(VDict([message |->
                VStr("Input error: Expected list under key '$result'")])))
       ELSE Go([f EXCEPT
                !.pc = "item_loop",
                !.log_entry.inputs_used =
                    [source_key |-> VStr("$result"),
                     count_from_global_state |-> VInt(Len(candidates_to_save[2]))],
                !.locals = [NoLocals EXCEPT
                    !.agent_url = agent_url,
                    !.candidates_to_save = candidates_to_save[2]]])

\* Lines 328-338: the start of the fan-out step.
FanOutBegin(f, agent_url) ==
    LET candidates_to_save == DictGet(f.global_state, "$result")
    IN IF ~IsList(candidates_to_save)
       THEN NodeFailed(f, AgentError(VDict([message |->
                VStr("Input error: Expected list under key '$result'")])))
       ELSE IF Len(candidates_to_save[2]) = 0
       THEN NodeDone(f, [f.log_entry EXCEPT
                !.status = "success",
                !.output = VDict([message |-> VStr("No candidates to save.")]),
                !.inputs_used = [source_key |-> VStr("$result")],
                !.details = VList(<<>>)])
       ELSE Go([f EXCEPT
                !.pc = "item_loop",
                !.log_entry.inputs_used =
                    [source_key |-> VStr("$result"),
                     count_from_global_state |-> VInt(Len(candidates_to_save[2]))],
                !.locals = [NoLocals EXCEPT
                    !.agent_url = agent_url,
                    !.candidates_to_save = candidates_to_save[2]]])

\* Lines 341-349 and 351-356 for a candidate that is not valid: the item is
\* recorded as an error; a valid candidate is posted to the agent.
ItemBegin(f) ==
    LET l         == f.locals
        candidate == l.candidates_to_save[l.index + 1]
    IN IF ValidCandidate(candidate)
       THEN Post([f EXCEPT !.pc = "await_item"],
                 RpcRequest(l.agent_url, f.log_entry.method,
                            [name   |-> candidate[2]["name"],
                             title  |-> candidate[2]["title"],
                             skills |-> candidate[2]["skills"]],
                            f.log_entry.nodeId, l.index))
       ELSE Go([f EXCEPT
                !.locals.error_count = l.error_count + 1,
                !.locals.individual_results =
                    Append(l.individual_results,
                           ItemResult(candidate, "error",
                                      VDict([error |-> ErrorDetail("invalid candidate", -32602)]))),
                !.locals.index = l.index + 1])

\* Lines 349-356: the agent's answer for one candidate.
ItemEnd(f, reply) ==
    LET l         == f.locals
        candidate == l.candidates_to_save[l.index + 1]
        out       == a2a_call(reply)
        item      == CASE out.kind = "return" -> ItemResult(candidate, "success", out.value)
                       [] out.kind = "AgentError" ->
                            ItemResult(candidate, "error", VDict([error |-> out.detail]))
                       [] out.kind = "HTTPException" ->
                            ItemResult(candidate, "error",
                                VDict([error |-> ErrorDetail(out.detail, out.status_code)]))
    IN Go([f EXCEPT
           !.pc = "item_loop",
           !.locals.success_count = IF out.kind = "return" THEN @ + 1 ELSE @,
           !.locals.error_count   = IF out.kind = "return" THEN @ ELSE @ + 1,
           !.locals.individual_results = Append(@, item),
           !.locals.index = l.index + 1])

\* Lines 357-369: the aggregate of the fan-out step.
FanOutEnd(f) ==
    LET l      == f.locals
        output == VDict([message |-> VStr("Attempted saves."),
                         saved   |-> VInt(l.success_count),
                         errors  |-> VInt(l.error_count)])
        entry  == [f.log_entry EXCEPT
                     !.details = VList(l.individual_results),
                     !.status = FanOutLogStatus(l.success_count, l.error_count),
                     !.output = output,
                     !.inputs_used = [source_key |-> VStr("$result"),
                                      count |-> VInt(Len(l.candidates_to_save))]]
        state  == DictSet(f.global_state, f.log_entry.nodeId \o "_summary", output)
        current_node_status == FanOutNodeStatus(l.success_count)
        workflow_status ==
            IF l.error_count > 0 /\ f.workflow_status # "failed"
            THEN current_node_status ELSE f.workflow_status
    IN IF l.error_count > 0 /\ current_node_status = "failed"
       THEN End(Response(workflow_status,
                         Append(f.logs, [entry EXCEPT !.duration_ms = Stamped]), state))
       ELSE NodeDone([f EXCEPT !.global_state = state,
                               !.workflow_status = workflow_status], entry)

(***************************************************************************)
(* The default path of a base agent, lines 372-472.                        *)
(***************************************************************************)

\* Lines 373-465: the method's metadata is looked up, the params are bound
\* and the request is posted.
\* Mutant: a binding that failed posts the call with the params bound so far.
DefaultBegin_CallsAnyway(f, card, agent_url) ==
    LET m == FindMethod(card, f.log_entry.method)
    IN IF ~m.found
       THEN NodeFailed(f, AgentError(VDict([message |-> VStr("Method metadata not found")])))
       ELSE LET b == BindParams(m.def.params, f.global_state, EmptyDict, EmptyDict)
            IN IF ~b.ok /\ b.crashed THEN NodeCrashed(f)
               ELSE Post([f EXCEPT !.pc = "await_call",
                                   !.locals = [NoLocals EXCEPT
                                        !.agent_url = agent_url,
                                        !.result_key = ResultKey(m.def)]],
                         RpcRequest(agent_url, f.log_entry.method,
                                    IF b.ok THEN b.params ELSE EmptyDict,
                                    f.log_entry.nodeId, -1))

DefaultBegin(f, card, agent_url) ==
    LET m == FindMethod(card, f.log_entry.method)
    IN IF ~m.found
       THEN NodeFailed(f, AgentError(VDict([message |-> VStr("Method metadata not found")])))
       ELSE LET b == BindParams(m.def.params, f.global_state, EmptyDict, EmptyDict)
            IN IF ~b.ok /\ b.crashed THEN NodeCrashed(f)
               ELSE IF ~b.ok THEN NodeFailed(f, AgentError(b.error))
               ELSE Post([f EXCEPT !.log_entry.inputs_used = b.inputs,
                                   !.pc = "await_call",
                                   !.locals = [NoLocals EXCEPT
                                        !.agent_url = agent_url,
                                        !.result_key = ResultKey(m.def)]],
                         RpcRequest(agent_url, f.log_entry.method, b.params,
                                    f.log_entry.nodeId, -1))

\* Mutant: a key the state already holds keeps its value.
MergeResult_FirstWriterWins(global_state, output, result_key) ==
    IF IsDict(output)
    THEN [k \in DOMAIN global_state \cup DOMAIN output[2] |->
             IF k \in DOMAIN global_state THEN global_state[k] ELSE output[2][k]]
    ELSE IF ~IsNull(output) THEN DictSet(global_state, result_key, output)
    ELSE global_state

\* Mutant: a dict result replaces the state.
MergeResult_ReplacesState(global_state, output, result_key) ==
    IF IsDict(output) THEN output[2]
    ELSE IF ~IsNull(output) THEN DictSet(global_state, result_key, output)
    ELSE global_state

\* Lines 468-471: a dict result is merged key by key, any other result that
\* is not None is stored under result_key.
MergeResult(global_state, output, result_key) ==
    IF IsDict(output) THEN DictUpdate(global_state, output[2])
    ELSE IF ~IsNull(output) THEN DictSet(global_state, result_key, output)
    ELSE global_state

\* Mutant: a step that succeeds sets the verdict to completed.
DefaultEnd_ResetsVerdict(f, reply) ==
    LET out == a2a_call(reply)
    IN IF out.kind = "return"
       THEN NodeDone([f EXCEPT !.global_state =
                          MergeResult(f.global_state, out.value, f.locals.result_key),
                               !.workflow_status = "completed"],
                     [f.log_entry EXCEPT !.status = "success", !.output = out.value])
       ELSE NodeFailed(f, out)

\* Lines 465-472, and 475-481 when a2a_call raised.
DefaultEnd(f, reply) ==
    LET out == a2a_call(reply)
    IN IF out.kind = "return"
       THEN NodeDone([f EXCEPT !.global_state =
                          MergeResult(f.global_state, out.value, f.locals.result_key)],
                     [f.log_entry EXCEPT !.status = "success", !.output = out.value])
       ELSE NodeFailed(f, out)

(***************************************************************************)
(* Composite agents, lines 303-320.                                        *)
(***************************************************************************)

\* Mutant: the nested activation is handed the global list as it is now.
CompositeBegin_PassesGlobalCache(f, card, depth) ==
    IF depth >= MaxDepth THEN NodeCrashed(f)
    ELSE LET composite_def == card.composite_definition
             waiting == [f EXCEPT !.log_entry.inputs_used = f.global_state,
                                  !.pc = "in_composite"]
             e == Enter(composite_def.nodes, composite_def.edges,
                        f.global_state, ALL_AGENTS_CACHE)
         IN [ended |-> FALSE, frame |-> waiting,
             push |-> IF e.entered THEN <<e.frame>> ELSE <<>>,
             ret |-> IF e.entered THEN NoReturn ELSE e.ret,
             posted |-> <<>>]

\* Lines 303-311: the nested activation starts on a copy of global_state.
\* An activation nested deeper than MaxDepth is Python's RecursionError.
CompositeBegin(f, card, depth) ==
    IF depth >= MaxDepth THEN NodeCrashed(f)
    ELSE LET composite_def == card.composite_definition
             waiting == [f EXCEPT !.log_entry.inputs_used = f.global_state,
                                  !.pc = "in_composite"]
             e == Enter(composite_def.nodes, composite_def.edges,
                        f.global_state, f.all_agents_cache)
         IN [ended |-> FALSE, frame |-> waiting,
             push |-> IF e.entered THEN <<e.frame>> ELSE <<>>,
             ret |-> IF e.entered THEN NoReturn ELSE e.ret,
             posted |-> <<>>]

\* Mutant: only a nested failure changes the verdict.
VerdictAfterComposite_IgnoresPartial(workflow_status, sub_status) ==
    IF sub_status = "failed" THEN "failed" ELSE workflow_status

\* Lines 316-317: the verdict after a nested activation that returned status.
VerdictAfterComposite(workflow_status, sub_status) ==
    IF sub_status # "completed" THEN sub_status ELSE workflow_status

\* Mutant: the state of a nested activation that failed is dropped.
CompositeEnd_DropsFailedState(f, sub_response) ==
    IF sub_response.kind = "response"
    THEN LET state == IF sub_response.status = "failed" THEN f.global_state
                      ELSE DictUpdate(f.global_state, sub_response.final_state)
             entry == [f.log_entry EXCEPT
                         !.status = sub_response.status,
                         !.output = VDict([message |-> VStr(
                             "Composite execution finished with status: "
                                 \o sub_response.status)]),
                         !.details = VList(sub_response.logs)]
             workflow_status ==
                 IF sub_response.status # "completed"
                 THEN sub_response.status ELSE f.workflow_status
         IN IF workflow_status = "failed" /\ sub_response.status # "completed"
            THEN End(Response(workflow_status,
                              Append(f.logs, [entry EXCEPT !.duration_ms = Stamped]),
                              state))
            ELSE NodeDone([f EXCEPT !.global_state = state,
                                    !.workflow_status = workflow_status], entry)
    ELSE NodeFailed(f, sub_response)

\* Mutant: a composite step whose nested execution has ended is run again.
CompositeEnd_RunsAgain(f, sub_response) ==
    Go([f EXCEPT !.pc = "loop", !.log_entry = NoLog])

\* Mutant: the parent goes on after a nested failure.
CompositeEnd_GoesOn(f, sub_response) ==
    IF sub_response.kind = "response"
    THEN NodeDone([f EXCEPT
                     !.global_state = DictUpdate(f.global_state, sub_response.final_state),
                     !.workflow_status =
                         IF sub_response.status # "completed"
                         THEN sub_response.status ELSE f.workflow_status],
                  [f.log_entry EXCEPT
                     !.status = sub_response.status,
                     !.output = VDict([message |-> VStr(
                         "Composite execution finished with status: "
                             \o sub_response.status)]),
                     !.details = VList(sub_response.logs)])
    ELSE NodeFailed(f, sub_response)

\* Lines 312-320 for the response of the nested activation, lines 475-481
\* for its HTTPException.
CompositeEnd(f, sub_response) ==
    IF sub_response.kind = "response"
    THEN LET state == DictUpdate(f.global_state, sub_response.final_state)
             entry == [f.log_entry EXCEPT
                         !.status = sub_response.status,
                         !.output = VDict([message |-> VStr(
                             "Composite execution finished with status: "
                                 \o sub_response.status)]),
                         !.details = VList(sub_response.logs)]
             workflow_status ==
                 VerdictAfterComposite(f.workflow_status, sub_response.status)
         IN IF sub_response.status # "completed" /\ workflow_status = "failed"
            THEN End(Response(workflow_status,
                              Append(f.logs, [entry EXCEPT !.duration_ms = Stamped]),
                              state))
            ELSE NodeDone([f EXCEPT !.global_state = state,
                                    !.workflow_status = workflow_status], entry)
    ELSE NodeFailed(f, sub_response)

(***************************************************************************)
(* The head of the loop, lines 289-300, 303, 324-328.                      *)
(***************************************************************************)
NodeBegin(f, depth) ==
    LET node_id == f.execution_order[f.pos]
        node    == NodeById(f.nodes, node_id)
        g       == [f EXCEPT !.log_entry = PendingLog(node)]
        found   == GetAgentDetails(node.agent, f.all_agents_cache)
    IN IF ~found.found
       THEN NodeFailed(g, HTTPException(404, "Agent not found during execution."))
       ELSE LET agent_card == found.card
                agent_url  == IF agent_card.url_ext # "" THEN agent_card.url_ext
                              ELSE agent_card.url
            IN IF agent_card.is_composite /\ agent_card.composite_definition.present
               THEN CompositeBegin(g, agent_card, depth)
               ELSE IF agent_url = ""
               THEN NodeFailed(g, HTTPException(500, "No valid URL for base agent"))
               ELSE IF node.agent = "dbservice_agent" /\ node.method = "create_record"
               THEN FanOutBegin(g, agent_url)
               ELSE DefaultBegin(g, agent_card, agent_url)

\* Lines 494-496: the loop is over, the activation returns its response.
LoopEnd(f) == End(Response(f.workflow_status, f.logs, f.global_state))

(***************************************************************************)
(* The requests served and the replies of the agents.                      *)
(***************************************************************************)
GoodCandidate ==
    VDict([name |-> VStr("ann"), title |-> VStr("dev"), skills |-> VList(<<VStr("tla")>>)])
NoSkillCandidate ==
    VDict([name |-> VStr("eve"), title |-> VStr("ops"), skills |-> VList(<<>>)])
EmptyNameCandidate ==
    VDict([name |-> VStr(""), title |-> VStr("dev"), skills |-> VList(<<>>)])
NoNameCandidate ==
    VDict([title |-> VStr("dev"), skills |-> VList(<<>>)])
EmptyTitleCandidate ==
    VDict([name |-> VStr("bob"), title |-> VStr(""), skills |-> VList(<<>>)])
NoTitleCandidate ==
    VDict([name |-> VStr("bob"), skills |-> VList(<<>>)])
MissingSkillsCandidate ==
    VDict([name |-> VStr("bob"), title |-> VStr("dev")])
NullSkillsCandidate ==
    VDict([name |-> VStr("bob"), title |-> VStr("dev"), skills |-> VNull])
TextSkillsCandidate ==
    VDict([name |-> VStr("bob"), title |-> VStr("dev"), skills |-> VStr("tla")])
TextCandidate == VStr("bob")

WellFormedCandidates == {GoodCandidate, NoSkillCandidate}
MalformedCandidates ==
    {EmptyNameCandidate, NoNameCandidate, EmptyTitleCandidate, NoTitleCandidate,
     MissingSkillsCandidate, NullSkillsCandidate, TextSkillsCandidate, TextCandidate}

ResultList(items) == [k \in {"$result"} |-> VList(items)]

\* The (agent, method) a step of a request may name; ghost_agent has no card.
StepKinds ==
    {<<"search_agent", "search">>, <<"score_agent", "score">>,
     <<"dbservice_agent", "create_record">>, <<"pipeline", "run">>,
     <<"outer", "run">>, <<"knot", "run">>, <<"ghost_agent", "run">>}

StepIds == <<"n1", "n2", "n3", "n4">>

StepLists ==
    {[i \in DOMAIN s |-> Node(StepIds[i], s[i][1], s[i][2])] :
        s \in SeqsUpTo(StepKinds, MaxSteps)}

\* No edge, or one edge between two steps of the request (a self-loop too).
EdgeLists(nodes) ==
    {<<>>} \cup {<<e>> : e \in [source : IdsOf(nodes), target : IdsOf(nodes)]}

\* Workflows of any steps on a few initial states.
GraphRequests ==
    UNION {[nodes : {nodes}, edges : EdgeLists(nodes),
            initial_inputs : {EmptyDict,
                              [x |-> VInt(0)],
                              ResultList(<<GoodCandidate, EmptyNameCandidate>>),
                              ResultList(<<TextCandidate>>)}] : nodes \in StepLists}

\* The fan-out step, alone or followed by a search, on any list of candidates.
FanOutRequests ==
    [nodes : {<<Node("n1", "dbservice_agent", "create_record")>>,
              <<Node("n1", "dbservice_agent", "create_record"),
                Node("n2", "search_agent", "search")>>},
     edges : {<<>>},
     initial_inputs :
        {ResultList(items) :
            items \in SeqsUpTo(WellFormedCandidates \cup MalformedCandidates, MaxItems)}
        \cup {[k \in {"$result"} |-> VStr("text")]}]

\* Up to MaxWriters searches, every one of which returns a record with "x".
MergeRequests ==
    [nodes : {[i \in 1 .. n |-> Node(StepIds[i], "search_agent", "search")] :
                 n \in 1 .. MaxWriters},
     edges : {<<>>},
     initial_inputs : {EmptyDict}]

\* A step whose method its agent does not declare, or whose agent's card
\* lists the params of the method by name only, alone or beside a search.
OddKinds == {<<"search_agent", "missing">>, <<"legacy_agent", "run">>}

OddRequests ==
    [nodes : UNION {{<<Node("n1", k[1], k[2])>>,
                     <<Node("n1", k[1], k[2]), Node("n2", "search_agent", "search")>>,
                     <<Node("n1", "search_agent", "search"), Node("n2", k[1], k[2])>>}
                       : k \in OddKinds},
     edges : {<<>>},
     initial_inputs : {[x |-> VInt(0)]}]

\* A scoring step whose input is not a number, alone or beside a search.
BadInputRequests ==
    [nodes : {<<Node("n1", "score_agent", "score")>>,
              <<Node("n1", "score_agent", "score"), Node("n2", "search_agent", "search")>>,
              <<Node("n1", "search_agent", "search"), Node("n2", "score_agent", "score")>>},
     edges : {<<>>},
     initial_inputs : {[x |-> VStr("abc")]}]

Requests ==
    GraphRequests \cup FanOutRequests \cup MergeRequests \cup OddRequests
    \cup BadInputRequests

\* The requests that are followed through two runs: the chains of writers,
\* every kind of step on its own, and a fan-out that fails in part.
TimedRequests ==
    MergeRequests
    \cup {r \in GraphRequests :
             Len(r.nodes) = 1 /\ r.edges = <<>> /\ r.initial_inputs = [x |-> VInt(0)]}
    \cup {r \in FanOutRequests :
             r.initial_inputs = ResultList(<<GoodCandidate, EmptyNameCandidate>>)}

\* What an agent may answer with "result".
RemoteResults(method) ==
    CASE method = "search"        -> {VDict([x |-> VInt(1)]), VDict([x |-> VInt(2)])}
      [] method = "score"         -> {VDict([score |-> VInt(9)])}
      [] method = "create_record" -> {VDict([id |-> VInt(7)])}
      [] method = "run"           ->
            {VNull, VInt(5), VStr("s"), VBool(FALSE), VList(<<VInt(1)>>),
             VDict(EmptyDict), VDict([v |-> VInt(9), y |-> VInt(1)])}
      [] OTHER                    -> {VNull}

FailureKinds ==
    {"rpc_error", "http_status", "read_timeout", "timeout", "connect_error", "bad_body"}

Replies(method) ==
    {[kind |-> "result", value |-> v] : v \in RemoteResults(method)}
    \cup {[kind |-> k] : k \in FailureKinds}

(***************************************************************************)
(* The executor as a state machine.                                        *)
(***************************************************************************)
NoRequest == [arrived |-> FALSE]

Top == stack[Len(stack)]

Running(pc) == stack # <<>> /\ ret.kind = "none" /\ Top.pc = pc

\* The agents are mocks: in the second run of a request they answer the
\* i-th call as they answered it in the first run.
Answers(reply) ==
    (earlier.done /\ Len(replies) < Len(earlier.replies)) =>
        reply = earlier.replies[Len(replies) + 1]

\* One step of the innermost activation; received is the reply it consumed.
Apply(eff, received) ==
    /\ stack' = IF eff.ended THEN SubSeq(stack, 1, Len(stack) - 1)
                ELSE [stack EXCEPT ![Len(stack)] = eff.frame] \o eff.push
    /\ ret' = eff.ret
    /\ calls' = calls \o eff.posted
    /\ replies' = replies \o received
    /\ UNCHANGED <<request, resp, schedVars, timedVars, cacheVars>>

\* run_workflow_endpoint, lines 587-593, up to the loop of the activation.
\* A behaviour follows one request from its arrival to its response.
RunWorkflow ==
    /\ request = NoRequest /\ stack = <<>> /\ ret.kind = "none" /\ resp.kind = "none"
    /\ \E req \in Requests :
          LET e == Enter(req.nodes, req.edges, req.initial_inputs, ALL_AGENTS_CACHE)
          IN /\ request' = req
             /\ stack' = IF e.entered THEN <<e.frame>> ELSE <<>>
             /\ ret' = IF e.entered THEN NoReturn ELSE e.ret
    /\ UNCHANGED <<resp, calls, replies, schedVars, timedVars, cacheVars>>

\* run_workflow_endpoint returns what execute_workflow_graph returned or raised.
Respond ==
    /\ stack = <<>> /\ ret.kind # "none"
    /\ resp' = ret
    /\ ret' = NoReturn
    /\ UNCHANGED <<request, stack, calls, replies, schedVars, timedVars, cacheVars>>

BeginNode ==
    /\ Running("loop") /\ Top.pos <= Len(Top.execution_order)
    /\ Apply(NodeBegin(Top, Len(stack)), <<>>)

EndLoop ==
    /\ Running("loop") /\ Top.pos > Len(Top.execution_order)
    /\ Apply(LoopEnd(Top), <<>>)

CallReturn ==
    /\ Running("await_call")
    /\ \E reply \in Replies(Top.log_entry.method) :
          Answers(reply) /\ Apply(DefaultEnd(Top, reply), <<reply>>)

ItemStep ==
    /\ Running("item_loop") /\ Top.locals.index < Len(Top.locals.candidates_to_save)
    /\ Apply(ItemBegin(Top), <<>>)

ItemReturn ==
    /\ Running("await_item")
    /\ \E reply \in Replies(Top.log_entry.method) :
          Answers(reply) /\ Apply(ItemEnd(Top, reply), <<reply>>)

FinishFanOut ==
    /\ Running("item_loop") /\ Top.locals.index = Len(Top.locals.candidates_to_save)
    /\ Apply(FanOutEnd(Top), <<>>)

ReturnToParent ==
    /\ stack # <<>> /\ ret.kind # "none"
    /\ Apply(CompositeEnd(Top, ret), <<>>)

ExecInit ==
    /\ request = NoRequest
    /\ stack = <<>>
    /\ ret = NoReturn
    /\ resp = NoReturn
    /\ calls = <<>>
    /\ replies = <<>>
    /\ clock = 1
    /\ earlier = [done |-> FALSE]
    /\ ALL_AGENTS_CACHE = Catalogue
    /\ COMPOSITE_AGENTS_FILE = StoredDefinitions(ALL_AGENTS_CACHE)
    /\ registering = <<>>
    /\ sched_in = [nodes |-> <<>>, edges |-> <<>>]
    /\ sched_out = NotScheduled

ExecNext ==
    \/ RunWorkflow
    \/ BeginNode
    \/ CallReturn
    \/ ItemStep
    \/ ItemReturn
    \/ FinishFanOut
    \/ ReturnToParent
    \/ EndLoop
    \/ Respond

Spec == ExecInit /\ [][ExecNext]_vars

(***************************************************************************)
(* The binding of one declared parameter.  The directory holds typed_agent, *)
(* whose method run declares the parameter v of some type, required or      *)
(* optional, and search_agent; a request runs typed_agent.run, alone or      *)
(* beside a search, on a state that holds some value, or none, under v.     *)
(***************************************************************************)
ParamTypes ==
    {"string", "integer", "number", "boolean", "Boolean",
     "array", "array[string]", "array[integer]", "object"}

TypedCard(type, required) ==
    BaseCard("typed_agent", "http://typed", "",
        <<[name |-> "run", params |-> <<Param("v", type, required)>>,
           returns |-> <<>>]>>)

TypedCatalogues ==
    {<<TypedCard(type, required), Catalogue[1]>> :
        type \in ParamTypes, required \in BOOLEAN}

\* The strings a state may hold under v.
BindStrings ==
    {"", " ", "0", "1", "abc", "true", "True", "TRUE", "yes", "YES",
     "false", "False", "no", "NO", "null", "[]", "[1]", "{}", "a,b,c", "a, b"}

BindValues ==
    {VNull, VBool(TRUE), VBool(FALSE), VInt(0), VInt(7), VList(<<>>),
     VList(<<VStr("a")>>), VDict(EmptyDict)}
    \cup {VStr(s) : s \in BindStrings}

BindRequests ==
    [nodes : {<<Node("n1", "typed_agent", "run")>>,
              <<Node("n1", "typed_agent", "run"), Node("n2", "search_agent", "search")>>,
              <<Node("n1", "search_agent", "search"), Node("n2", "typed_agent", "run")>>},
     edges : {<<>>},
     initial_inputs : {EmptyDict} \cup {[k \in {"v"} |-> val] : val \in BindValues}]

\* run_workflow_endpoint, lines 587-593, on a request of BindRequests.
RunBound ==
    /\ request = NoRequest /\ stack = <<>> /\ ret.kind = "none" /\ resp.kind = "none"
    /\ \E req \in BindRequests :
          LET e == Enter(req.nodes, req.edges, req.initial_inputs, ALL_AGENTS_CACHE)
          IN /\ request' = req
             /\ stack' = IF e.entered THEN <<e.frame>> ELSE <<>>
             /\ ret' = IF e.entered THEN NoReturn ELSE e.ret
    /\ UNCHANGED <<resp, calls, replies, schedVars, timedVars, cacheVars>>

BindInit ==
    /\ request = NoRequest
    /\ stack = <<>>
    /\ ret = NoReturn
    /\ resp = NoReturn
    /\ calls = <<>>
    /\ replies = <<>>
    /\ clock = 1
    /\ earlier = [done |-> FALSE]
    /\ ALL_AGENTS_CACHE \in TypedCatalogues
    /\ COMPOSITE_AGENTS_FILE = StoredDefinitions(ALL_AGENTS_CACHE)
    /\ registering = <<>>
    /\ sched_in = [nodes |-> <<>>, edges |-> <<>>]
    /\ sched_out = NotScheduled

BindNext ==
    \/ RunBound
    \/ BeginNode
    \/ CallReturn
    \/ EndLoop
    \/ Respond

BindSpec == BindInit /\ [][BindNext]_vars

(***************************************************************************)
(* The merge of a result.  The method run of typed_agent declares no, one   *)
(* or two return fields; the requests are those of the binding.             *)
(***************************************************************************)
ReturnField(name) == [name |-> name]

ReturnLists ==
    {<<>>, <<ReturnField("total")>>, <<ReturnField("v")>>, <<ReturnField("$result")>>,
     <<ReturnField("a"), ReturnField("b")>>}

ReturningCard(returns) ==
    BaseCard("typed_agent", "http://typed", "",
        <<[name |-> "run", params |-> <<Param("v", "string", FALSE)>>,
           returns |-> returns]>>)

ReturnInit ==
    /\ request = NoRequest
    /\ stack = <<>>
    /\ ret = NoReturn
    /\ resp = NoReturn
    /\ calls = <<>>
    /\ replies = <<>>
    /\ clock = 1
    /\ earlier = [done |-> FALSE]
    /\ ALL_AGENTS_CACHE \in {<<ReturningCard(returns), Catalogue[1]>> : returns \in ReturnLists}
    /\ COMPOSITE_AGENTS_FILE = StoredDefinitions(ALL_AGENTS_CACHE)
    /\ registering = <<>>
    /\ sched_in = [nodes |-> <<>>, edges |-> <<>>]
    /\ sched_out = NotScheduled

ReturnSpec == ReturnInit /\ [][BindNext]_vars

(***************************************************************************)
(* register_composite, lines 564-584, called by several clients at a time.  *)
(* A coroutine gives way to another only where it waits for the registry's  *)
(* answer inside refresh_agent_cache (line 222): file_lock is free whenever *)
(* a coroutine asks for it, because no holder waits while holding it, and   *)
(* the file is read and written without waiting.  The places of a call:     *)
(*   refresh_before  waiting for the registry in the refresh of line 570    *)
(*   refresh_after   waiting for the registry in the refresh of line 582    *)
(*   done            returned, or raised, with status                       *)
(***************************************************************************)
MaxClients == 2

\* _get_base_agents_from_registry, lines 218-231: the cards of the registry,
\* or nothing when the registry cannot be asked.
RegistryAnswers == {SelectSeq(Catalogue, LAMBDA c : ~c.is_composite), <<>>}

\* refresh_agent_cache, lines 520-548: the base cards, then one card per
\* definition of the file.
refresh_agent_cache(base_agents, composites) ==
    base_agents \o
    [i \in DOMAIN composites |->
        CompositeCard(composites[i].name, composites[i].nodes, composites[i].edges)]

\* Mutant: the new definition is saved alone.
WithDefinition_Alone(composites, new_definition) == <<new_definition>>

\* composites[req.name] = new_definition, line 578.
WithDefinition(composites, new_definition) ==
    IF \E i \in DOMAIN composites : composites[i].name = new_definition.name
    THEN [i \in DOMAIN composites |->
            IF composites[i].name = new_definition.name THEN new_definition
            ELSE composites[i]]
    ELSE Append(composites, new_definition)

RegisterRequests ==
    [name : {"alpha", "beta", "pipeline", "search_agent"},
     nodes : {<<>>, <<Node("c1", "search_agent", "search")>>},
     edges : {<<>>}]

\* Lines 564-570: a request arrives; without nodes it is refused, otherwise
\* the call waits for the registry.
Register ==
    /\ Len(registering) < MaxClients
    /\ \E req \in RegisterRequests :
          registering' = Append(registering,
              IF req.nodes = <<>> THEN [req |-> req, pc |-> "done", status |-> 400]
              ELSE [req |-> req, pc |-> "refresh_before", status |-> 0])
    /\ UNCHANGED <<ALL_AGENTS_CACHE, COMPOSITE_AGENTS_FILE, request, stack, ret, resp,
                   calls, replies, schedVars, timedVars>>

\* Lines 570-582, from the registry's answer to the second refresh: the cache
\* is rebuilt, the file is loaded, the name is looked up, the definition is
\* added and the file saved.
CheckAndSave ==
    \E c \in DOMAIN registering, base_agents \in RegistryAnswers :
        LET req        == registering[c].req
            composites == COMPOSITE_AGENTS_FILE
            cache      == refresh_agent_cache(base_agents, composites)
            existing_names ==
                {composites[i].name : i \in DOMAIN composites}
                \cup {cache[i].name : i \in {j \in DOMAIN cache : ~cache[j].is_composite}}
        IN /\ registering[c].pc = "refresh_before"
           /\ ALL_AGENTS_CACHE' = cache
           /\ IF req.name \in existing_names
              THEN /\ registering' = [registering EXCEPT ![c].pc = "done", ![c].status = 409]
                   /\ UNCHANGED COMPOSITE_AGENTS_FILE
              ELSE /\ COMPOSITE_AGENTS_FILE' =
                          WithDefinition(composites,
                                         Definition(req.name, req.nodes, req.edges))
                   /\ registering' = [registering EXCEPT ![c].pc = "refresh_after"]
           /\ UNCHANGED <<request, stack, ret, resp, calls, replies, schedVars, timedVars>>

\* Lines 582-584, from the registry's answer on: the cache is rebuilt from
\* the file as it is now, and the call returns 201.
FinishRegister ==
    \E c \in DOMAIN registering, base_agents \in RegistryAnswers :
        /\ registering[c].pc = "refresh_after"
        /\ ALL_AGENTS_CACHE' = refresh_agent_cache(base_agents, COMPOSITE_AGENTS_FILE)
        /\ registering' = [registering EXCEPT ![c].pc = "done", ![c].status = 201]
        /\ UNCHANGED <<COMPOSITE_AGENTS_FILE, request, stack, ret, resp, calls, replies,
                       schedVars, timedVars>>

\* After startup_event (513-518): the file holds no composite or one, and the
\* cache was built from it.
RegisterInit ==
    /\ request = NoRequest
    /\ stack = <<>>
    /\ ret = NoReturn
    /\ resp = NoReturn
    /\ calls = <<>>
    /\ replies = <<>>
    /\ clock = 1
    /\ earlier = [done |-> FALSE]
    /\ COMPOSITE_AGENTS_FILE \in
           {<<>>, <<Definition("pipeline", Catalogue[4].composite_definition.nodes,
                               Catalogue[4].composite_definition.edges)>>}
    /\ \E base_agents \in RegistryAnswers :
          ALL_AGENTS_CACHE = refresh_agent_cache(base_agents, COMPOSITE_AGENTS_FILE)
    /\ registering = <<>>
    /\ sched_in = [nodes |-> <<>>, edges |-> <<>>]
    /\ sched_out = NotScheduled

RegisterNext ==
    \/ Register
    \/ CheckAndSave
    \/ FinishRegister

RegisterSpec == RegisterInit /\ [][RegisterNext]_vars

(***************************************************************************)
(* The executor on a directory whose composites name themselves: selfie     *)
(* holds a step of selfie, ping holds a step of pong and pong one of ping.  *)
(* The nesting ends where the interpreter's recursion limit (MaxDepth) is   *)
(* hit: the RecursionError is raised in the step of the innermost           *)
(* activation (BeginNode), or in the start of the activation nested in it,  *)
(* which its handler of lines 501-507 turns into a response (Overflow).     *)
(***************************************************************************)
DeepCatalogue ==
    << Catalogue[1],
       CompositeCard("selfie",
           <<Node("s1", "search_agent", "search"), Node("s2", "selfie", "run")>>,
           <<>>),
       CompositeCard("ping", <<Node("g1", "pong", "run")>>, <<>>),
       CompositeCard("pong", <<Node("h1", "ping", "run")>>, <<>>) >>

\* A search alone, and a step of selfie or of ping, alone, or before or behind
\* a search.
DeepKinds == {<<"selfie", "run">>, <<"ping", "run">>}

DeepRequests ==
    [nodes : UNION {{<<Node("n1", "search_agent", "search")>>,
                     <<Node("n1", k[1], k[2])>>,
                     <<Node("n1", k[1], k[2]), Node("n2", "search_agent", "search")>>,
                     <<Node("n1", "search_agent", "search"), Node("n2", k[1], k[2])>>}
                       : k \in DeepKinds},
     edges : {<<>>},
     initial_inputs : {EmptyDict}]

\* run_workflow_endpoint, lines 587-593, on a request of DeepRequests.
RunDeep ==
    /\ request = NoRequest /\ stack = <<>> /\ ret.kind = "none" /\ resp.kind = "none"
    /\ \E req \in DeepRequests :
          LET e == Enter(req.nodes, req.edges, req.initial_inputs, ALL_AGENTS_CACHE)
          IN /\ request' = req
             /\ stack' = IF e.entered THEN <<e.frame>> ELSE <<>>
             /\ ret' = IF e.entered THEN NoReturn ELSE e.ret
    /\ UNCHANGED <<resp, calls, replies, schedVars, timedVars, cacheVars>>

\* Lines 501-507: the response of an activation that failed outside a step.
SetupFailed(global_state) ==
    Response("failed",
             <<[nodeId |-> "WORKFLOW_SETUP", agent |-> "System",
                method |-> "Orchestration", status |-> "error",
                inputs_used |-> EmptyDict,
                output |-> VDict([error |-> ErrorDetail("maximum recursion depth exceeded",
                                                        -32000)]),
                duration_ms |-> VNull, details |-> VNull]>>,
             global_state)

\* Lines 308-311 at the recursion limit: the nested activation is called and
\* fails in its start, which it answers with the response of 501-507.
Overflow ==
    /\ Running("loop") /\ Top.pos <= Len(Top.execution_order)
    /\ Len(stack) >= MaxDepth
    /\ LET node  == NodeById(Top.nodes, Top.execution_order[Top.pos])
           found == GetAgentDetails(node.agent, Top.all_agents_cache)
       IN /\ found.found
          /\ found.card.is_composite /\ found.card.composite_definition.present
          /\ Apply([ended |-> FALSE,
                    frame |-> [Top EXCEPT !.log_entry =
                                   [PendingLog(node) EXCEPT !.inputs_used = Top.global_state],
                               !.pc = "in_composite"],
                    push |-> <<>>,
                    ret |-> SetupFailed(Top.global_state),
                    posted |-> <<>>], <<>>)

DeepInit ==
    /\ request = NoRequest
    /\ stack = <<>>
    /\ ret = NoReturn
    /\ resp = NoReturn
    /\ calls = <<>>
    /\ replies = <<>>
    /\ clock = 1
    /\ earlier = [done |-> FALSE]
    /\ ALL_AGENTS_CACHE = DeepCatalogue
    /\ COMPOSITE_AGENTS_FILE = StoredDefinitions(ALL_AGENTS_CACHE)
    /\ registering = <<>>
    /\ sched_in = [nodes |-> <<>>, edges |-> <<>>]
    /\ sched_out = NotScheduled

DeepNext ==
    \/ RunDeep
    \/ BeginNode
    \/ Overflow
    \/ CallReturn
    \/ ReturnToParent
    \/ EndLoop
    \/ Respond

\* The event loop runs a coroutine that can run, and every remote invocation
\* is answered in the end.
DeepSpec == DeepInit /\ [][DeepNext]_vars /\ WF_vars(DeepNext)

(***************************************************************************)
(* The executor beside register_composite: of the MaxClients clients one    *)
(* runs a workflow and the others register composites.  A coroutine of      *)
(* register_composite runs only where the execution has given way, that is *)
(* before the request arrived, while an activation waits for the answer of  *)
(* a remote call (lines 347, 465), and after the response.                  *)
(***************************************************************************)
Suspended ==
    /\ ret.kind = "none"
    /\ IF stack = <<>> THEN TRUE ELSE Top.pc \in {"await_call", "await_item"}

\* Two searches, a search beside the composite alpha, and a search before a
\* step of beta, which no file holds at startup.
LiveRequests ==
    [nodes : {<<Node("n1", "search_agent", "search"), Node("n2", "search_agent", "search")>>,
              <<Node("n1", "search_agent", "search"), Node("n2", "alpha", "run")>>,
              <<Node("n1", "alpha", "run"), Node("n2", "search_agent", "search")>>,
              <<Node("n1", "search_agent", "search"), Node("n2", "beta", "run")>>},
     edges : {<<>>},
     initial_inputs : {EmptyDict}]

\* run_workflow_endpoint, lines 587-593, on a request of LiveRequests: the
\* activation is handed the list ALL_AGENTS_CACHE names at this moment.
RunLive ==
    /\ request = NoRequest /\ stack = <<>> /\ ret.kind = "none" /\ resp.kind = "none"
    /\ \E req \in LiveRequests :
          LET e == Enter(req.nodes, req.edges, req.initial_inputs, ALL_AGENTS_CACHE)
          IN /\ request' = req
             /\ stack' = IF e.entered THEN <<e.frame>> ELSE <<>>
             /\ ret' = IF e.entered THEN NoReturn ELSE e.ret
    /\ UNCHANGED <<resp, calls, replies, schedVars, timedVars, cacheVars>>

RegisterMeanwhile == Suspended /\ Len(registering) < MaxClients - 1 /\ Register

CheckAndSaveMeanwhile == Suspended /\ CheckAndSave

FinishRegisterMeanwhile == Suspended /\ FinishRegister

\* After startup_event (513-518): the file holds no composite or alpha, and
\* the cache was built from it and from what the registry answered.
LiveInit ==
    /\ request = NoRequest
    /\ stack = <<>>
    /\ ret = NoReturn
    /\ resp = NoReturn
    /\ calls = <<>>
    /\ replies = <<>>
    /\ clock = 1
    /\ earlier = [done |-> FALSE]
    /\ COMPOSITE_AGENTS_FILE \in
           {<<>>, <<Definition("alpha",
                               <<Node("c1", "search_agent", "search"),
                                 Node("c2", "search_agent", "search")>>, <<>>)>>}
    /\ \E base_agents \in RegistryAnswers :
          ALL_AGENTS_CACHE = refresh_agent_cache(base_agents, COMPOSITE_AGENTS_FILE)
    /\ registering = <<>>
    /\ sched_in = [nodes |-> <<>>, edges |-> <<>>]
    /\ sched_out = NotScheduled

LiveNext ==
    \/ RunLive
    \/ BeginNode
    \/ CallReturn
    \/ ReturnToParent
    \/ EndLoop
    \/ Respond
    \/ RegisterMeanwhile
    \/ CheckAndSaveMeanwhile
    \/ FinishRegisterMeanwhile

LiveSpec == LiveInit /\ [][LiveNext]_vars

(***************************************************************************)
(* The executor with time: the clock reads differently from step to step,  *)
(* and the client posts its request a second time to the same mocks.       *)
(***************************************************************************)
Durations == 1 .. MaxDuration

\* Time passes while a workflow runs.
Tick ==
    /\ stack # <<>> /\ request \in TimedRequests
    /\ \E d \in Durations \ {clock} : clock' = d
    /\ UNCHANGED <<request, stack, ret, resp, calls, replies, earlier, schedVars, cacheVars>>

\* What is kept of the first run's response: the verdict, the final state and the
\* sequence of log step ids and statuses; an exception as it is.
Outcome(r) ==
    IF r.kind = "response"
    THEN [status |-> r.status, final_state |-> r.final_state,
          steps |-> [i \in DOMAIN r.logs |-> <<r.logs[i].nodeId, r.logs[i].status>>]]
    ELSE r

\* run_workflow_endpoint, lines 587-593, for the same request body again.
RunAgain ==
    /\ resp.kind # "none" /\ ~earlier.done
    /\ request \in TimedRequests
    /\ earlier' = [done |-> TRUE, replies |-> replies, outcome |-> Outcome(resp)]
    /\ LET e == Enter(request.nodes, request.edges, request.initial_inputs, ALL_AGENTS_CACHE)
       IN /\ stack' = IF e.entered THEN <<e.frame>> ELSE <<>>
          /\ ret' = IF e.entered THEN NoReturn ELSE e.ret
    /\ resp' = NoReturn
    /\ calls' = <<>>
    /\ replies' = <<>>
    /\ UNCHANGED <<request, clock, schedVars, cacheVars>>

TimedNext ==
    \/ ExecNext
    \/ Tick
    \/ RunAgain

TimedSpec == ExecInit /\ [][TimedNext]_vars

(***************************************************************************)
(* Graph notions the scheduler's claims are stated with, defined on the    *)
(* edge relation and not through Kahn's algorithm.                         *)
(***************************************************************************)
UniqueIds(nodes) == \A i, j \in DOMAIN nodes : nodes[i].id = nodes[j].id => i = j

EdgeRel(nodes, edges) ==
    {<<e.source, e.target>> : e \in Range(KnownEdges(nodes, edges))}

\* A path of at least one and at most n edges from a to b.
RECURSIVE PathWithin(_, _, _, _)
PathWithin(rel, a, b, n) ==
    /\ n >= 1
    /\ \/ <<a, b>> \in rel
       \/ \E p \in rel : p[1] = a /\ PathWithin(rel, p[2], b, n - 1)

OnCycle(nodes, edges, a) ==
    PathWithin(EdgeRel(nodes, edges), a, a, Cardinality(IdsOf(nodes)))

HasCycle(nodes, edges) == \E a \in IdsOf(nodes) : OnCycle(nodes, edges, a)

\* The position of x in the sequence s (0 when absent).
Pos(s, x) == IF x \in Range(s) THEN CHOOSE i \in DOMAIN s : s[i] = x ELSE 0

NoDuplicates(s) == \A i, j \in DOMAIN s : s[i] = s[j] => i = j

\* C1: for an acyclic graph with unique step ids, topological_sort returns a
\* list holding every step id exactly once in which the source of every edge
\* between two steps of the graph comes before its target.
C1_SortIsTopologicalOrder ==
    (/\ sched_out.called
     /\ UniqueIds(sched_in.nodes)
     /\ ~HasCycle(sched_in.nodes, sched_in.edges))
    => LET r == sched_out.result
       IN /\ ~r.raised
          /\ Range(r.order) = IdsOf(sched_in.nodes)
          /\ NoDuplicates(r.order)
          /\ \A p \in EdgeRel(sched_in.nodes, sched_in.edges) :
                Pos(r.order, p[1]) < Pos(r.order, p[2])

\* A three-step DAG with two edges whose order differs from the declared one.
C1_Witness ==
    /\ sched_out.called
    /\ UniqueIds(sched_in.nodes)
    /\ ~HasCycle(sched_in.nodes, sched_in.edges)
    /\ Len(sched_in.nodes) = 3
    /\ Cardinality(EdgeRel(sched_in.nodes, sched_in.edges)) = 2
    /\ sched_out.result.order # DictKeys(sched_in.nodes)

\* C2: for a graph with a directed cycle (a self-loop included)
\* topological_sort fails, and the ids the error carries are the steps whose
\* in-degree is still positive when the loop stops, which are the steps
\* missing from the order produced so far.
C2_CycleIsRejected ==
    (sched_out.called /\ HasCycle(sched_in.nodes, sched_in.edges))
    => LET r == sched_out.result
       IN /\ r.raised
          /\ r.status_code = 400
          /\ Range(r.cycle_nodes) = {id \in IdsOf(sched_in.nodes) : r.in_degree[id] > 0}
          /\ Range(r.cycle_nodes) = IdsOf(sched_in.nodes) \ Range(r.order)
          /\ r.cycle_nodes # <<>>

\* A cyclic graph of which one step was still ordered before the loop stopped.
C2_Witness ==
    /\ sched_out.called
    /\ HasCycle(sched_in.nodes, sched_in.edges)
    /\ sched_out.result.raised
    /\ Len(sched_out.result.order) >= 1
    /\ Len(sched_out.result.cycle_nodes) = 2
    /\ \E e \in Range(sched_in.edges) : e.source = e.target

(***************************************************************************)
(* Notions the executor's claims are stated with.                          *)
(***************************************************************************)
Arrived == request # NoRequest

Rank(status) ==
    CASE status = "completed" -> 0
      [] status = "partial_success" -> 1
      [] status = "failed" -> 2

\* The log entry is the one of a fan-out step.
IsFanOutEntry(e) == e.agent = "dbservice_agent" /\ e.method = "create_record"

\* The log entry is the one of a composite step that got a nested response.
IsCompositeEntry(e) == ~IsFanOutEntry(e) /\ IsList(e.details)

\* The nodes of the graph of the activation whose result is in ret.
ReturnedNodes ==
    IF stack = <<>> THEN request.nodes
    ELSE GetAgentDetails(Top.log_entry.agent,
                         Top.all_agents_cache).card.composite_definition.nodes

\* Every key of before is a key of after with its value, but for changed.
StateKept(before, after, changed) ==
    \A k \in DOMAIN before :
        k \in DOMAIN after /\ (k \notin changed => after[k] = before[k])

\* C3: a graph with a cycle is rejected as a whole before any step runs: no
\* activation ever runs a cyclic graph, and for a cyclic request no request
\* is posted, no log entry and no state is returned, only the HTTP 400.
C3_CyclicGraphNeverRuns ==
    /\ \A d \in DOMAIN stack : ~HasCycle(stack[d].nodes, stack[d].edges)
    /\ (Arrived /\ HasCycle(request.nodes, request.edges)) =>
          /\ stack = <<>>
          /\ calls = <<>>
          /\ ret.kind \in {"none", "HTTPException"}
          /\ resp.kind \in {"none", "HTTPException"}
          /\ ret.kind = "HTTPException" \/ resp.kind = "HTTPException"
          /\ ret.kind = "HTTPException" => ret.status_code = 400
          /\ resp.kind = "HTTPException" => resp.status_code = 400

\* A rejected request with a step that no edge enters beside the cycle.
C3_Witness ==
    /\ Arrived
    /\ resp.kind = "HTTPException"
    /\ Len(request.nodes) = 2
    /\ HasCycle(request.nodes, request.edges)
    /\ \E i \in DOMAIN request.nodes :
          /\ ~OnCycle(request.nodes, request.edges, request.nodes[i].id)
          /\ \A p \in EdgeRel(request.nodes, request.edges) : p[2] # request.nodes[i].id
    /\ calls = <<>>

\* C4: execute on an empty step set returns completed, no logs and a final
\* state equal to the initial state.
C4_EmptyGraphKeepsState ==
    (Arrived /\ request.nodes = <<>> /\ resp.kind # "none") =>
        /\ resp.kind = "response"
        /\ resp.status = "completed"
        /\ resp.logs = <<>>
        /\ resp.final_state = request.initial_inputs

\* C5: within one activation the verdict only moves from completed to
\* partial_success to failed, and the verdict returned is not better than
\* the verdict held when the activation ended.
C5_VerdictOnlyWorsens ==
    [][ \A d \in DOMAIN stack :
          /\ d <= Len(stack') =>
                Rank(stack[d].workflow_status) <= Rank(stack'[d].workflow_status)
          /\ (d = Len(stack) /\ Len(stack') < Len(stack) /\ ret'.kind = "response") =>
                Rank(stack[d].workflow_status) <= Rank(ret'.status)
      ]_vars

\* An activation that went on after its verdict became partial_success.
C5_Witness ==
    \E d \in DOMAIN stack :
        /\ stack[d].workflow_status = "partial_success"
        /\ stack[d].pc = "loop"
        /\ Len(stack[d].logs) >= 2
        /\ stack[d].logs[Len(stack[d].logs)].status = "success"

\* The response an activation has just returned, if any.
ReturnedResponses ==
    (IF ret.kind = "response" THEN {ret} ELSE {}) \cup
    (IF resp.kind = "response" THEN {resp} ELSE {})

\* The entry is the one of a step on the default path that succeeded with a
\* record holding key k.
IsRecordStep(e, k) ==
    /\ ~IsFanOutEntry(e)
    /\ IsNull(e.details)
    /\ e.status = "success"
    /\ IsDict(e.output)
    /\ k \in DOMAIN e.output[2]

\* The step of the entry, or a step nested in it, may have written key k.
RECURSIVE EntryWrites(_, _)
EntryWrites(e, k) ==
    IF IsFanOutEntry(e)
    THEN IsList(e.details) /\ e.details[2] # <<>> /\ k = e.nodeId \o "_summary"
    ELSE IF IsList(e.details)
    THEN \E i \in DOMAIN e.details[2] : EntryWrites(e.details[2][i], k)
    ELSE e.status = "success" /\ (IsDict(e.output) => k \in DOMAIN e.output[2])

\* Merge order: when two steps of one activation both returned a record with
\* key k and the later of them, B, is the last step to write k, the final
\* state holds B's value for k.
C6_LastWriterWins ==
    \A r \in ReturnedResponses :
        \A a, b \in DOMAIN r.logs :
            (a < b /\ IsDict(r.logs[b].output)) =>
                \A k \in DOMAIN r.logs[b].output[2] :
                    ( /\ IsRecordStep(r.logs[a], k)
                      /\ IsRecordStep(r.logs[b], k)
                      /\ \A m \in DOMAIN r.logs : m > b => ~EntryWrites(r.logs[m], k) )
                    => /\ k \in DOMAIN r.final_state
                       /\ r.final_state[k] = r.logs[b].output[2][k]

\* C6 (repeated runs): the second run of a request, with the same graph,
\* initial state and mocked replies, returns the first run's outcome,
\* whatever the durations of the steps of either run.
C6_SameOutcomeAgain ==
    (earlier.done /\ resp.kind # "none") => Outcome(resp) = earlier.outcome

\* C6 as amended: the last writer of a key wins, and a run repeated on the
\* same graph, initial state and replies returns the same verdict, final
\* state and sequence of log step ids and statuses.
C6_MergeOrder == C6_LastWriterWins /\ C6_SameOutcomeAgain

\* C6 as stated: for any two steps A before B that succeed with a record
\* holding key k, the final state holds B's value for k; and a repeated run
\* returns the same outcome.
C6_AnyLaterWriterWins ==
    /\ \A r \in ReturnedResponses :
          \A a, b \in DOMAIN r.logs :
              (a < b /\ IsDict(r.logs[b].output)) =>
                  \A k \in DOMAIN r.logs[b].output[2] :
                      (IsRecordStep(r.logs[a], k) /\ IsRecordStep(r.logs[b], k))
                      => /\ k \in DOMAIN r.final_state
                         /\ r.final_state[k] = r.logs[b].output[2][k]
    /\ C6_SameOutcomeAgain

\* The second run of three writers of one key, the last of which disagrees
\* with the one before it, and whose steps did not all take the same time.
C6_MergeWitness ==
    /\ earlier.done
    /\ resp.kind = "response"
    /\ Len(resp.logs) = 3
    /\ \E k \in DOMAIN resp.final_state :
          /\ \A i \in 1 .. 3 : IsRecordStep(resp.logs[i], k)
          /\ resp.logs[2].output[2][k] # resp.logs[3].output[2][k]
          /\ resp.final_state[k] = resp.logs[3].output[2][k]
    /\ \E i, j \in 1 .. 3 : resp.logs[i].duration_ms # resp.logs[j].duration_ms

\* The log of the outermost activation, running or returned.
TopLogs ==
    IF stack # <<>> THEN stack[1].logs
    ELSE IF ret.kind = "response" THEN ret.logs
    ELSE IF resp.kind = "response" THEN resp.logs
    ELSE <<>>

\* The number of malformed items of a list of candidates.
MalformedCount(items) ==
    Cardinality({i \in DOMAIN items : items[i] \in MalformedCandidates})

\* Every call made for the step so far was answered with a result.
AllCallsSucceeded(node_id) ==
    \A i \in DOMAIN replies : calls[i].node_id = node_id => replies[i].kind = "result"

\* C7: a fan-out step over N items, M of them malformed, whose remote calls
\* all succeed, has status partial_success iff 0 < M < N, error iff M = N
\* with N > 0, success iff M = 0, and its log entry has exactly N
\* sub-entries.
C7_FanOutStatusByMalformed ==
    LET logs == TopLogs
    IN ( /\ Arrived
         /\ logs # <<>>
         /\ IsFanOutEntry(logs[1])
         /\ "$result" \in DOMAIN request.initial_inputs
         /\ IsList(request.initial_inputs["$result"])
         /\ AllCallsSucceeded(logs[1].nodeId) )
       => LET items == request.initial_inputs["$result"][2]
              N == Len(items)
              M == MalformedCount(items)
              e == logs[1]
          IN /\ e.status = "partial_success" <=> (0 < M /\ M < N)
             /\ e.status = "error" <=> (M = N /\ N > 0)
             /\ e.status = "success" <=> M = 0
             /\ IsList(e.details)
             /\ Len(e.details[2]) = N

\* A fan-out over two items, the second with skills that are not a list,
\* ended partial_success after one call.
C7_Witness ==
    /\ resp.kind = "response"
    /\ resp.logs # <<>>
    /\ IsFanOutEntry(resp.logs[1])
    /\ resp.logs[1].status = "partial_success"
    /\ request.initial_inputs = ResultList(<<GoodCandidate, TextSkillsCandidate>>)
    /\ Len(resp.logs[1].details[2]) = 2
    /\ AllCallsSucceeded(resp.logs[1].nodeId)
    /\ Len(calls) >= 1

\* The step the innermost activation is about to begin.
NextNode == NodeById(Top.nodes, Top.execution_order[Top.pos])

\* The innermost activation is about to begin a fan-out step on an empty list.
AtEmptyFanOut ==
    /\ Running("loop")
    /\ Top.pos <= Len(Top.execution_order)
    /\ NextNode.agent = "dbservice_agent"
    /\ NextNode.method = "create_record"
    /\ DictGet(Top.global_state, "$result") = VList(<<>>)

\* The log entry of a fan-out step that found its list empty.
IsEmptyFanOutEntry(e) ==
    IsFanOutEntry(e) /\ e.status = "success" /\ e.details = VList(<<>>)

\* The step of a fan-out on an empty list: one log entry with status success
\* and no sub-entries, no request posted, state and verdict as they were,
\* and the activation goes on to the next position of its order.
EmptyFanOutStep ==
    AtEmptyFanOut =>
        /\ Len(stack') = Len(stack)
        /\ LET f == Top
               g == stack'[Len(stack)]
           IN /\ g.pc = "loop"
              /\ g.pos = f.pos + 1
              /\ g.global_state = f.global_state
              /\ g.workflow_status = f.workflow_status
              /\ Len(g.logs) = Len(f.logs) + 1
              /\ SubSeq(g.logs, 1, Len(f.logs)) = f.logs
              /\ IsEmptyFanOutEntry(g.logs[Len(g.logs)])
              /\ g.logs[Len(g.logs)].nodeId = f.execution_order[f.pos]
        /\ calls' = calls
        /\ ret' = NoReturn

\* In what an activation returns, an empty fan-out that was not the last
\* scheduled step is followed by the entry of the next step.
EmptyFanOutIsFollowed ==
    ret.kind = "response" =>
        \A i \in DOMAIN ret.logs :
            (IsEmptyFanOutEntry(ret.logs[i]) /\ i < Len(ReturnedNodes))
                => Len(ret.logs) > i

\* C8: a fan-out step on an empty list is a no-op success: status success,
\* zero sub-entries, no remote invocation, state unchanged, verdict not
\* downgraded, and the following scheduled steps are still executed.
C8_EmptyFanOutIsNoOp == [][EmptyFanOutStep]_vars /\ []EmptyFanOutIsFollowed

\* A fan-out on an empty list was followed by a search that was called.
C8_Witness ==
    /\ resp.kind = "response"
    /\ resp.status = "completed"
    /\ Len(resp.logs) = 2
    /\ IsEmptyFanOutEntry(resp.logs[1])
    /\ resp.logs[2].status = "success"
    /\ Len(calls) = 1
    /\ calls[1].node_id = resp.logs[2].nodeId
    /\ request.initial_inputs = ResultList(<<>>)

\* The innermost activation has seen every item of its fan-out step.
AtFanOutEnd ==
    /\ Running("item_loop")
    /\ Top.locals.index = Len(Top.locals.candidates_to_save)

\* The step that ends a fan-out with failed items: when every item failed
\* the activation returns failed at once, with the entry of the fan-out as
\* its last; when some succeeded it goes on with a verdict that is not
\* completed. Either way the state keeps what it held.
FailedItemsStep ==
    (AtFanOutEnd /\ Top.locals.error_count > 0) =>
        LET f == Top
            summary == {f.log_entry.nodeId \o "_summary"}
        IN IF f.locals.success_count = 0
           THEN /\ Len(stack') = Len(stack) - 1
                /\ ret'.kind = "response"
                /\ ret'.status = "failed"
                /\ Len(ret'.logs) = Len(f.logs) + 1
                /\ ret'.logs[Len(ret'.logs)].nodeId = f.log_entry.nodeId
                /\ StateKept(f.global_state, ret'.final_state, summary)
                /\ calls' = calls
           ELSE /\ Len(stack') = Len(stack)
                /\ LET g == stack'[Len(stack)]
                   IN /\ g.pc = "loop"
                      /\ g.pos = f.pos + 1
                      /\ g.workflow_status = "partial_success"
                      /\ StateKept(f.global_state, g.global_state, summary)
                /\ ret' = NoReturn

\* In what an activation returns: a fan-out that failed in part is followed
\* by the next scheduled step and the verdict is partial_success or failed;
\* a fan-out that failed on every item is the last entry and the verdict is
\* failed; the summary the fan-out wrote is in the final state.
FanOutFailureInResponse ==
    ret.kind = "response" =>
        \A i \in DOMAIN ret.logs :
            LET e == ret.logs[i]
            IN (IsFanOutEntry(e) /\ IsList(e.details) /\ e.details[2] # <<>>) =>
                  /\ e.status = "partial_success" =>
                        /\ ret.status \in {"partial_success", "failed"}
                        /\ i < Len(ReturnedNodes) => Len(ret.logs) > i
                  /\ e.status = "error" =>
                        /\ ret.status = "failed"
                        /\ i = Len(ret.logs)
                  /\ (e.nodeId \o "_summary") \in DOMAIN ret.final_state

\* C9: after a fan-out where some but not all items failed the remaining
\* steps still run and the verdict is at least partial_success; after a
\* fan-out where every item failed the activation returns failed at once
\* and attempts no later step; the state changes made so far are kept.
C9_FanOutFailure == [][FailedItemsStep]_vars /\ []FanOutFailureInResponse

\* A search wrote x, the fan-out after it failed on every item, and the
\* response is failed with x and the summary in its final state.
C9_Witness ==
    /\ resp.kind = "response"
    /\ resp.status = "failed"
    /\ Len(request.nodes) = 2
    /\ Len(resp.logs) = 2
    /\ resp.logs[1].status = "success"
    /\ IsFanOutEntry(resp.logs[2])
    /\ resp.logs[2].status = "error"
    /\ IsList(resp.logs[2].details)
    /\ "x" \in DOMAIN resp.final_state
    /\ resp.final_state["x"] = resp.logs[1].output[2]["x"]
    /\ (resp.logs[2].nodeId \o "_summary") \in DOMAIN resp.final_state

\* The step of a parent whose nested activation returned failed: the parent
\* returns failed at once with the composite's entry as its last, and no
\* request is posted.
NestedFailureStep ==
    (stack # <<>> /\ ret.kind = "response" /\ ret.status = "failed") =>
        /\ Len(stack') = Len(stack) - 1
        /\ ret'.kind = "response"
        /\ ret'.status = "failed"
        /\ Len(ret'.logs) = Len(Top.logs) + 1
        /\ ret'.logs[Len(ret'.logs)].nodeId = Top.log_entry.nodeId
        /\ ret'.logs[Len(ret'.logs)].status = "failed"
        /\ calls' = calls

\* At every depth of a log, a composite entry with status failed is the
\* last entry of its log and the verdict of that log's activation is failed.
RECURSIVE FailFast(_, _)
FailFast(logs, status) ==
    \A i \in DOMAIN logs :
        IsCompositeEntry(logs[i]) =>
            /\ logs[i].status = "failed" => (i = Len(logs) /\ status = "failed")
            /\ FailFast(logs[i].details[2], logs[i].status)

FailFastInResponse == resp.kind = "response" => FailFast(resp.logs, resp.status)

\* C10: when the nested execution of a composite step ends failed, the
\* parent ends failed and attempts no step scheduled after the composite;
\* at every nesting depth.
C10_NestedFailurePropagates == [][NestedFailureStep]_vars /\ []FailFastInResponse

\* A failure two levels down ended the outermost activation before its
\* second step.
C10_Witness ==
    /\ resp.kind = "response"
    /\ resp.status = "failed"
    /\ Len(request.nodes) = 2
    /\ Len(resp.logs) = 1
    /\ IsCompositeEntry(resp.logs[1])
    /\ resp.logs[1].status = "failed"
    /\ LET inner == resp.logs[1].details[2]
       IN /\ inner # <<>>
          /\ IsCompositeEntry(inner[Len(inner)])
          /\ inner[Len(inner)].status = "failed"

\* The step of a parent whose nested activation returned partial_success:
\* the parent keeps running, at its next position, with verdict
\* partial_success.
NestedPartialStep ==
    (stack # <<>> /\ ret.kind = "response" /\ ret.status = "partial_success") =>
        /\ Len(stack') = Len(stack)
        /\ ret' = NoReturn
        /\ LET g == stack'[Len(stack)]
           IN /\ g.pc = "loop"
              /\ g.pos = Top.pos + 1
              /\ g.workflow_status = "partial_success"
              /\ g.logs[Len(g.logs)].nodeId = Top.log_entry.nodeId
              /\ g.logs[Len(g.logs)].status = "partial_success"

\* In what an activation returns after a composite step that ended
\* partial_success: the next scheduled step has its entry, the verdict is
\* not completed, it is failed exactly when the last step failed, and it is
\* partial_success when every later step succeeded.
AfterNestedPartial ==
    ret.kind = "response" =>
        \A i \in DOMAIN ret.logs :
            (IsCompositeEntry(ret.logs[i]) /\ ret.logs[i].status = "partial_success") =>
                /\ i < Len(ReturnedNodes) => Len(ret.logs) > i
                /\ ret.status \in {"partial_success", "failed"}
                /\ ret.status = "failed" <=>
                      ret.logs[Len(ret.logs)].status \in {"error", "failed"}
                /\ (\A j \in DOMAIN ret.logs :
                        j > i => ret.logs[j].status \in {"success", "completed"})
                      => ret.status = "partial_success"

\* C11: after a composite step whose nested execution ended partial_success
\* the parent goes on with its next steps; its verdict is partial_success
\* when every later step succeeds, failed when a later step fails, and
\* never completed.
C11_NestedPartialContinues == [][NestedPartialStep]_vars /\ []AfterNestedPartial

\* A composite that ended partial_success was followed by a search that
\* succeeded, and the verdict is partial_success.
C11_Witness ==
    /\ resp.kind = "response"
    /\ resp.status = "partial_success"
    /\ Len(resp.logs) = 2
    /\ IsCompositeEntry(resp.logs[1])
    /\ resp.logs[1].status = "partial_success"
    /\ resp.logs[2].status = "success"
    /\ calls # <<>>
    /\ calls[Len(calls)].node_id = resp.logs[2].nodeId

\* C12: the status on a composite step's log entry is the nested verdict
\* mapped onto the step vocabulary (completed to success, partial_success to
\* partial_success, failed to error), so that every log entry an activation
\* returns has a status in {success, error, partial_success}.
C12_CompositeStatusMapped ==
    \A r \in ReturnedResponses :
        \A i \in DOMAIN r.logs :
            r.logs[i].status \in {"success", "error", "partial_success"}

\* before overwritten key by key with update.
Overwritten(before, update) ==
    [k \in DOMAIN before \cup DOMAIN update |->
        IF k \in DOMAIN update THEN update[k] ELSE before[k]]

\* One step seen from the states of the activations: a step changes no
\* activation but the innermost; a nested activation starts with the state
\* its parent has, which the parent keeps; and the parent that takes the
\* response of its nested activation, whatever the verdict, has (or returns)
\* its state overwritten key by key with the nested final state.
SeedAndMergeStep ==
    /\ \A d \in 1 .. Len(stack) - 1 : d <= Len(stack') => stack'[d] = stack[d]
    /\ (stack # <<>> /\ Len(stack') = Len(stack) + 1) =>
          /\ stack'[Len(stack')].global_state = Top.global_state
          /\ stack'[Len(stack)].global_state = Top.global_state
    /\ (stack # <<>> /\ ret.kind = "response") =>
          LET merged == Overwritten(Top.global_state, ret.final_state)
          IN IF Len(stack') = Len(stack)
             THEN stack'[Len(stack)].global_state = merged
             ELSE ret'.kind = "response" /\ ret'.final_state = merged

\* C13: a composite step seeds its nested execution with a copy of the
\* parent's state; nested writes do not change the parent's state while the
\* nested execution runs; when the nested execution returns, with any
\* verdict, the parent's state is its state before the step overwritten key
\* by key with the nested final state; nothing flows from the parent into
\* the nested execution after the seeding.
C13_SeedCopyMergeBack == [][SeedAndMergeStep]_vars

\* A nested activation has written a key that its suspended parent does not
\* hold.
C13_Witness ==
    /\ Len(stack) = 2
    /\ stack[1].pc = "in_composite"
    /\ stack[2].logs # <<>>
    /\ \E k \in DOMAIN stack[2].global_state : k \notin DOMAIN stack[1].global_state

\* C14: a transport error (the address is unreachable) on a remote invocation
\* is always fatal: no further remote invocation is issued after it, neither
\* for a later step nor for a later item of the same fan-out step, and the
\* execution ends with verdict failed.
C14_TransportErrorIsFatal ==
    \A i \in DOMAIN replies :
        replies[i].kind = "connect_error" =>
            /\ Len(calls) = i
            /\ resp.kind = "response" => resp.status = "failed"

\* C15: every execution of a schedulable graph returns a structured response
\* (verdict, logs, final state) and never a fault; an unexpected internal
\* error raised while a step is processed comes back as a response with
\* verdict failed.
C15_AlwaysStructuredResponse ==
    (resp.kind # "none" /\ ~HasCycle(request.nodes, request.edges)) =>
        resp.kind = "response"

\* The cards of ALL_AGENTS_CACHE that carry the name of an agent.
CardsNamed(agent) == {c \in Range(ALL_AGENTS_CACHE) : c.name = agent}

\* The step the innermost activation is about to process is a primitive step
\* that cannot be invoked: its agent is not in the directory, its method is
\* not declared by the agent, a required parameter is absent from the state,
\* or the state holds a text that is no number for an integer parameter.
PrimitiveStepCannotBind ==
    /\ Running("loop") /\ Top.pos <= Len(Top.execution_order)
    /\ ~IsFanOutEntry(NextNode)
    /\ \/ CardsNamed(NextNode.agent) = {}
       \/ \E c \in CardsNamed(NextNode.agent) :
             /\ ~c.is_composite
             /\ \/ \A i \in DOMAIN c.methods : c.methods[i].name # NextNode.method
                \/ \E i \in DOMAIN c.methods :
                      /\ c.methods[i].name = NextNode.method
                      /\ \E j \in DOMAIN c.methods[i].params :
                            LET p == c.methods[i].params[j]
                            IN /\ p.shape = "dict"
                               /\ \/ p.required /\ p.name \notin DOMAIN Top.global_state
                                  \/ /\ p.name \in DOMAIN Top.global_state
                                     /\ p.type = "integer"
                                     /\ Top.global_state[p.name] = VStr("abc")

\* The remote failures of a step: an application error, a timeout, a status
\* other than 200.
StepFailureReplies == {"rpc_error", "read_timeout", "timeout", "http_status"}

\* The step takes the reply of a primitive step's invocation, a failure.
PrimitiveCallFails ==
    /\ Running("await_call")
    /\ Len(replies') = Len(replies) + 1
    /\ replies'[Len(replies')].kind \in StepFailureReplies

\* The activation ends here: it returns verdict failed with the entry of the
\* step, of status error, as the last of its log, and posts no call.
EndsFailedAt(node_id) ==
    /\ stack' = SubSeq(stack, 1, Len(stack) - 1)
    /\ ret'.kind = "response" /\ ret'.status = "failed"
    /\ Len(ret'.logs) = Len(Top.logs) + 1
    /\ SubSeq(ret'.logs, 1, Len(Top.logs)) = Top.logs
    /\ ret'.logs[Len(ret'.logs)].nodeId = node_id
    /\ ret'.logs[Len(ret'.logs)].status = "error"
    /\ calls' = calls

PrimitiveFailureStep ==
    /\ PrimitiveStepCannotBind => EndsFailedAt(NextNode.id)
    /\ PrimitiveCallFails => EndsFailedAt(Top.log_entry.nodeId)

\* C16: when a primitive step fails for a step-level reason (agent not in the
\* directory, method not declared, required parameter missing, coercion
\* error, remote application error, timeout, HTTP status other than 200), the
\* step's log entry has status error, the verdict is failed, the failing step
\* is the last log entry and no step scheduled after it is attempted.
C16_PrimitiveFailureEndsRun == [][PrimitiveFailureStep]_vars

\* A scoring step whose input is no number has failed before a search: the
\* response holds its entry alone and no call was posted.
C16_Witness ==
    /\ resp.kind = "response" /\ resp.status = "failed"
    /\ request \in BadInputRequests
    /\ Len(request.nodes) = 2 /\ request.nodes[1].agent = "score_agent"
    /\ Len(resp.logs) = 1 /\ resp.logs[1].status = "error"
    /\ resp.logs[1].nodeId = "n1"
    /\ calls = <<>>

\* The declared parameter of typed_agent.run, and the step that binds it.
Declared == ALL_AGENTS_CACHE[1].methods[1].params[1]

AtTypedStep ==
    /\ Running("loop") /\ Top.pos <= Len(Top.execution_order)
    /\ NextNode.agent = "typed_agent"

Present == Declared.name \in DOMAIN Top.global_state
Held == Top.global_state[Declared.name]

\* The step posts one call, whose params hold v under the parameter's name
\* and nothing else; or hold nothing.
Sends(v) ==
    /\ Len(calls') = Len(calls) + 1
    /\ calls'[Len(calls')].node_id = NextNode.id
    /\ calls'[Len(calls')].params = [k \in {Declared.name} |-> v]

Omits ==
    /\ Len(calls') = Len(calls) + 1
    /\ calls'[Len(calls')].node_id = NextNode.id
    /\ calls'[Len(calls')].params = EmptyDict

\* The step posts no call and ends the activation with the step's entry, of
\* status error, and the state as it was.
FailsUninvoked ==
    /\ calls' = calls
    /\ ret'.kind = "response" /\ ret'.status = "failed"
    /\ ret'.logs[Len(ret'.logs)].nodeId = NextNode.id
    /\ ret'.logs[Len(ret'.logs)].status = "error"
    /\ ret'.final_state = Top.global_state

\* A state that is known not to bind: the required parameter is absent, or
\* an integer parameter is given a text that is no number.
CannotBind ==
    \/ Declared.required /\ ~Present
    \/ Present /\ Declared.type = "integer" /\ Held = VStr("abc")

BindingFailureStep ==
    AtTypedStep =>
        /\ CannotBind => FailsUninvoked
        /\ ret'.kind # "none" => FailsUninvoked

\* C17: parameter binding only reads the shared state: when the binding of a
\* primitive step fails (a required parameter is absent, or a present value
\* cannot be converted to the declared type), no remote invocation is issued
\* for the step and the final state returned is the state just before the
\* step.
C17_BindingFailureKeepsState == [][BindingFailureStep]_vars

\* After a search, the step of typed_agent failed to bind a text to its
\* integer parameter: one call only, the search's, and the state returned
\* holds the search's result beside the text.
C17_Witness ==
    /\ resp.kind = "response" /\ resp.status = "failed"
    /\ Declared.type = "integer"
    /\ Len(request.nodes) = 2 /\ request.nodes[2].agent = "typed_agent"
    /\ request.initial_inputs = [k \in {"v"} |-> VStr("abc")]
    /\ Len(calls) = 1 /\ calls[1].node_id = "n1"
    /\ Len(resp.logs) = 2 /\ resp.logs[2].status = "error"
    /\ DOMAIN resp.final_state = {"v", "x"}
    /\ resp.final_state["v"] = VStr("abc")

OptionalParameterStep ==
    (AtTypedStep /\ ~Declared.required) =>
        /\ ~Present => Omits
        /\ (Present /\ Held \in {VStr(""), VStr(" ")}) => Omits
        /\ (Present /\ Held = VNull) => Sends(VNull)

\* C18: for an optional declared parameter of any declared type: a key absent
\* from the state is omitted from the call's parameters; an empty or
\* whitespace-only string is omitted as well, without coercion or error; a
\* null is sent as an explicit null.
C18_OptionalParameter == [][OptionalParameterStep]_vars

\* An optional integer parameter whose state value is a blank was omitted
\* from the call that was posted.
C18_Witness ==
    /\ ~Declared.required /\ Declared.type = "integer"
    /\ request # NoRequest
    /\ request.initial_inputs = [k \in {"v"} |-> VStr(" ")]
    /\ Len(request.nodes) = 1
    /\ Len(calls) = 1 /\ calls[1].params = EmptyDict

TrueSpellings == {"true", "True", "TRUE", "1", "yes", "YES"}
FalseSpellings == {"false", "False", "no", "NO", "0"}

BooleanParameterStep ==
    (AtTypedStep /\ Declared.type \in {"boolean", "Boolean"} /\ Present) =>
        /\ Held \in {VBool(TRUE), VBool(FALSE)} => Sends(Held)
        /\ (IsStr(Held) /\ Held[2] \in TrueSpellings) => Sends(VBool(TRUE))
        /\ (IsStr(Held) /\ Held[2] \in FalseSpellings) => Sends(VBool(FALSE))
        /\ (/\ IsStr(Held) /\ Held[2] \notin TrueSpellings \cup FalseSpellings
            /\ ~(~Declared.required /\ Held[2] \in {"", " "})) => FailsUninvoked

\* C19: for a parameter declared boolean whose state value is present: a
\* boolean is sent unchanged; a string equal, ignoring case, to true, 1 or
\* yes is sent as true and to false, 0 or no as false; any other string that
\* is not skipped as a blank optional fails the step with a coercion error
\* and no invocation.
C19_BooleanParameter == [][BooleanParameterStep]_vars

\* The text YES was sent as true for a parameter declared Boolean.
C19_Witness ==
    /\ Declared.type = "Boolean"
    /\ request # NoRequest
    /\ request.initial_inputs = [k \in {"v"} |-> VStr("YES")]
    /\ Len(request.nodes) = 1
    /\ Len(calls) = 1 /\ calls[1].params = [k \in {"v"} |-> VBool(TRUE)]

\* The lists that the texts of structured lists stand for; the texts that
\* have no structured parse, with their pieces between commas; the texts of
\* structured values that are no lists.
ListTexts == [t \in {"[]", "[1]"} |-> IF t = "[]" THEN <<>> ELSE <<VInt(1)>>]
Pieces ==
    [t \in {"a,b,c", "abc"} |->
        IF t = "abc" THEN <<VStr("abc")>> ELSE <<VStr("a"), VStr("b"), VStr("c")>>]
OtherJsonTexts == {"0", "1", "true", "false", "null", "{}"}

\* The binding of a present value to an array parameter, where the texts of
\* split are split on commas for the element type string and the other
\* texts without a structured parse are errors.
ArrayParameterStep(split) ==
    (/\ AtTypedStep /\ Present
     /\ Declared.type \in {"array", "array[string]", "array[integer]"}
     /\ ~(~Declared.required /\ Held = VNull)) =>
        /\ IsList(Held) => Sends(Held)
        /\ (IsStr(Held) /\ Held[2] \in DOMAIN ListTexts) =>
              Sends(VList(ListTexts[Held[2]]))
        /\ (IsStr(Held) /\ Held[2] \in DOMAIN Pieces) =>
              IF Declared.type = "array[string]" /\ Held[2] \in split
              THEN Sends(VList(Pieces[Held[2]]))
              ELSE FailsUninvoked
        /\ (IsStr(Held) /\ Held[2] \in OtherJsonTexts) => FailsUninvoked
        /\ (~IsStr(Held) /\ ~IsList(Held)) => FailsUninvoked

TakesResult ==
    /\ Running("await_call")
    /\ Len(replies') = Len(replies) + 1
    /\ replies'[Len(replies')].kind = "result"

\* The key for a result that is no record, from the return fields that the
\* card of the agent declares for the method.
DeclaredKey(agent, method) ==
    LET card == CHOOSE c \in CardsNamed(agent) : TRUE
        m    == CHOOSE i \in DOMAIN card.methods : card.methods[i].name = method
        returns == card.methods[m].returns
    IN IF Len(returns) = 1 /\ returns[1].name # "$result"
       THEN returns[1].name ELSE "$result"

ResultMergeStep ==
    TakesResult =>
        LET out    == replies'[Len(replies')].value
            before == Top.global_state
            key    == DeclaredKey(Top.log_entry.agent, Top.log_entry.method)
        IN /\ Len(stack') = Len(stack)
           /\ LET after == stack'[Len(stack)].global_state
              IN /\ IsDict(out) =>
                       /\ DOMAIN after = DOMAIN before \cup DOMAIN out[2]
                       /\ \A k \in DOMAIN after :
                             after[k] = IF k \in DOMAIN out[2] THEN out[2][k]
                                        ELSE before[k]
                 /\ (~IsDict(out) /\ ~IsNull(out)) =>
                       /\ DOMAIN after = DOMAIN before \cup {key}
                       /\ after[key] = out
                       /\ \A k \in DOMAIN before \ {key} : after[k] = before[k]

\* C21: after a successful primitive invocation, a result that is a record
\* has every key written into the shared state, over same-named keys, and no
\* other key changes; a result that is a scalar or a list changes exactly one
\* key: the declared return field's name if exactly one return field is
\* declared and it is not $result, the key $result otherwise (no or several
\* declared return fields included).
C21_ResultMerge == [][ResultMergeStep]_vars

\* The method declares the one return field total and returned the number 5,
\* which the final state holds under total beside the initial v.
C21_Witness ==
    /\ resp.kind = "response" /\ resp.status = "completed"
    /\ ALL_AGENTS_CACHE[1].methods[1].returns = <<ReturnField("total")>>
    /\ Len(request.nodes) = 1
    /\ request.initial_inputs = [k \in {"v"} |-> VStr("abc")]
    /\ resp.final_state = [k \in {"v", "total"} |-> IF k = "v" THEN VStr("abc") ELSE VInt(5)]

\* C22: the fan-out path applies the result-merge rule like the primitive
\* path: the record returned by a successful item invocation of a fan-out
\* step is merged into the shared state, so that the final state holds each
\* of its keys.
C22_FanOutMergesItemResults ==
    resp.kind = "response" =>
        \A i \in DOMAIN replies :
            (replies[i].kind = "result" /\ calls[i].item >= 0
             /\ IsDict(replies[i].value)) =>
                \A k \in DOMAIN replies[i].value[2] : k \in DOMAIN resp.final_state

\* The edges of the graph of the activation whose result is in ret.
ReturnedEdges ==
    IF stack = <<>> THEN request.edges
    ELSE GetAgentDetails(Top.log_entry.agent,
                         Top.all_agents_cache).card.composite_definition.edges

\* The log of a response against the scheduler's order of its graph: the
\* step ids of the log are the first steps of the order, each once; a run
\* that was not stopped logged every step; a run that was stopped has the
\* entry of the step that stopped it last, after entries of steps that did
\* not fail.
LogFollowsOrder(r, nodes, edges) ==
    LET order == topological_sort(nodes, edges).order
        n     == Len(r.logs)
    IN /\ n <= Len(order)
       /\ \A i \in 1 .. n : r.logs[i].nodeId = order[i]
       /\ \A i, j \in 1 .. n : r.logs[i].nodeId = r.logs[j].nodeId => i = j
       /\ r.status # "failed" => n = Len(order)
       /\ r.status = "failed" =>
             /\ n >= 1
             /\ r.logs[n].status \in {"error", "failed"}
             /\ \A i \in 1 .. n - 1 : r.logs[i].status \notin {"error", "failed"}

\* C23: in every result returned by an execution the log has exactly one
\* entry per step attempted, each appended once, and the step ids of the
\* entries are a prefix of the scheduler's order; when the execution was
\* stopped by a hard failure the entry of the step that caused the stop is
\* present and is the last.
C23_LogIsPrefixOfOrder ==
    /\ ret.kind = "response" => LogFollowsOrder(ret, ReturnedNodes, ReturnedEdges)
    /\ resp.kind = "response" => LogFollowsOrder(resp, request.nodes, request.edges)

\* A run of two steps, ordered against their declaration by an edge, was
\* stopped by its second step: the log follows the order, the failure last.
C23_Witness ==
    /\ resp.kind = "response" /\ resp.status = "failed"
    /\ Len(request.nodes) = 2
    /\ request.edges = <<Edge("n2", "n1")>>
    /\ Len(resp.logs) = 2
    /\ resp.logs[1].nodeId = "n2" /\ resp.logs[1].status = "success"
    /\ resp.logs[2].nodeId = "n1" /\ resp.logs[2].status = "error"

\* The entry of the step the innermost activation has just begun: pending
\* in the activation that awaits the call, or the last of the log returned.
EntryAfterBegin ==
    IF ret'.kind = "response" THEN ret'.logs[Len(ret'.logs)]
    ELSE stack'[Len(stack)].log_entry

RecordsInputsStep ==
    (AtTypedStep /\ Present /\ ret'.kind \in {"none", "response"}) =>
        /\ Declared.name \in DOMAIN EntryAfterBegin.inputs_used
        /\ EntryAfterBegin.inputs_used[Declared.name] = Held

\* C24: for every primitive step that is attempted, whether its binding
\* succeeds or fails, the step's log entry records as its inputs the state
\* values, before coercion, of the declared parameters that the binding read.
C24_InputsRecorded == [][RecordsInputsStep]_vars

\* No step takes a key from the state of an activation: an activation that
\* goes on holds every key it held, and one that returns a response hands
\* back every key it held.
KeysKeptStep ==
    /\ \A d \in 1 .. Len(stack) :
          d <= Len(stack') =>
              DOMAIN stack[d].global_state \subseteq DOMAIN stack'[d].global_state
    /\ (stack # <<>> /\ Len(stack') < Len(stack) /\ ret'.kind = "response") =>
          DOMAIN Top.global_state \subseteq DOMAIN ret'.final_state

\* The result of an execution of at least one step holds every key that was
\* supplied initially.
InitialKeysInResponse ==
    (resp.kind = "response" /\ request.nodes # <<>>) =>
        DOMAIN request.initial_inputs \subseteq DOMAIN resp.final_state

\* C25: during an execution with at least one step the shared state never
\* loses a key: for every step of any kind, failing or succeeding, every key
\* present before the step is present after it, possibly with a new value.
C25_StateKeepsKeys == [][KeysKeptStep]_vars /\ []InitialKeysInResponse

\* Two steps have run on an initial x that the result of one of them
\* overwrote; the final state still holds x.
C25_Witness ==
    /\ resp.kind = "response" /\ resp.status = "completed"
    /\ Len(resp.logs) = 2
    /\ request.initial_inputs = [x |-> VInt(0)]
    /\ "x" \in DOMAIN resp.final_state /\ resp.final_state["x"] # VInt(0)
    /\ "score" \in DOMAIN resp.final_state

\* The steps on a directed cycle of the scheduled graph, and those that can
\* be reached from one of them.
CycleMembers == {a \in IdsOf(sched_in.nodes) : OnCycle(sched_in.nodes, sched_in.edges, a)}

Downstream(a) ==
    {b \in IdsOf(sched_in.nodes) :
        PathWithin(EdgeRel(sched_in.nodes, sched_in.edges), a, b,
                   Cardinality(IdsOf(sched_in.nodes)))}

\* C26 as stated: when topological_sort fails on a graph that cannot be
\* ordered, the steps it reports (those with residual in-degree > 0) are
\* exactly the members of directed cycles; a step that only lies downstream
\* of a cycle is not reported.
C26_ReportsCycleMembersOnly ==
    (sched_out.called /\ sched_out.result.raised) =>
        Range(sched_out.result.cycle_nodes) = CycleMembers

\* C26 amended: the steps reported are exactly the members of directed cycles
\* together with the steps downstream of a cycle.
C26_ReportsCycleAndDownstream ==
    (sched_out.called /\ sched_out.result.raised) =>
        Range(sched_out.result.cycle_nodes) =
            CycleMembers \cup UNION {Downstream(a) : a \in CycleMembers}

\* A failed sort of three distinct steps reported a step that is on no cycle,
\* after it had ordered another.
C26_Witness ==
    /\ sched_out.called /\ sched_out.result.raised
    /\ UniqueIds(sched_in.nodes) /\ Len(sched_in.nodes) = 3
    /\ Len(sched_out.result.order) = 1
    /\ \E a \in Range(sched_out.result.cycle_nodes) : a \notin CycleMembers

\* The declared ids of the scheduled graph, and those no kept edge enters.
DeclaredIds == [i \in DOMAIN sched_in.nodes |-> sched_in.nodes[i].id]

Seeds ==
    SelectSeq(DeclaredIds,
              LAMBDA id : \A p \in EdgeRel(sched_in.nodes, sched_in.edges) : p[2] # id)

\* The place in the order of the predecessor of v that is ordered last, and
\* the index of the last edge from that predecessor to v.
Maximum(S) == CHOOSE m \in S : \A x \in S : x <= m

ReadyAt(order, v) ==
    Maximum({Pos(order, p[1]) : p \in {q \in EdgeRel(sched_in.nodes, sched_in.edges) : q[2] = v}})

LastEdge(u, v) ==
    Maximum({i \in DOMAIN sched_in.edges :
                sched_in.edges[i].source = u /\ sched_in.edges[i].target = v})

\* C27: topological_sort is deterministic and declaration-ordered: the steps
\* of in-degree zero come first, in the order of their declaration, ahead of
\* every step queued later; a step that becomes ready is queued behind all
\* steps already queued (first in, first out), so the order is fixed by the
\* declared order of steps and edges.
C27_DeclarationOrderedFifo ==
    (sched_out.called /\ ~sched_out.result.raised) =>
        LET order == sched_out.result.order
            late  == Range(order) \ Range(Seeds)
        IN /\ SubSeq(order, 1, Len(Seeds)) = Seeds
           /\ \A v, w \in late :
                 LET rv == ReadyAt(order, v)
                     rw == ReadyAt(order, w)
                 IN (\/ rv < rw
                     \/ rv = rw /\ LastEdge(order[rv], v) < LastEdge(order[rw], w))
                    => Pos(order, v) < Pos(order, w)

\* The step declared first became ready after the two declared behind it
\* were queued, and was ordered behind both.
C27_Witness ==
    /\ sched_out.called /\ ~sched_out.result.raised
    /\ DeclaredIds = <<"n1", "n2", "n3">>
    /\ sched_in.edges = <<[source |-> "n2", target |-> "n1"]>>
    /\ sched_out.result.order = <<"n2", "n3", "n1">>

\* C30: topological_sort fails with the cycle error only if the graph, after
\* the edges with an unknown endpoint are dropped, has a directed cycle; a
\* step list that declares one id twice and has no cycle is not rejected, and
\* a graph whose only irregularity is an edge to an unknown step is ordered.
C30_CycleErrorOnlyForCycles ==
    (sched_out.called /\ sched_out.result.raised) =>
        HasCycle(sched_in.nodes, sched_in.edges)

\* The names of the definitions in the file, and of the composite cards of
\* the cache.
FileNames == {COMPOSITE_AGENTS_FILE[i].name : i \in DOMAIN COMPOSITE_AGENTS_FILE}

CachedComposites ==
    {[name |-> c.name, nodes |-> c.composite_definition.nodes] :
        c \in {d \in Range(ALL_AGENTS_CACHE) : d.is_composite}}

\* C28: if two register_composite requests with two distinct names, not used
\* before, run concurrently, interleaved where they wait, and both return
\* success, then the composite store and the agent cache hold both
\* definitions.
C28_BothRegistrationsKept ==
    \A c, d \in DOMAIN registering :
        (/\ c # d
         /\ registering[c].pc = "done" /\ registering[c].status = 201
         /\ registering[d].pc = "done" /\ registering[d].status = 201
         /\ registering[c].req.name # registering[d].req.name) =>
            \A e \in {c, d} :
                /\ registering[e].req.name \in FileNames
                /\ [name |-> registering[e].req.name,
                    nodes |-> registering[e].req.nodes] \in CachedComposites

\* Two requests, alpha and beta, have both returned 201 beside a composite
\* that was there before.
C28_Witness ==
    /\ Len(registering) = 2
    /\ registering[1].status = 201 /\ registering[2].status = 201
    /\ registering[1].req.name = "alpha" /\ registering[2].req.name = "beta"
    /\ FileNames = {"pipeline", "alpha", "beta"}

ResolvedIn(agent, all_agents) ==
    LET found == GetAgentDetails(agent, all_agents)
    IN IF ~found.found THEN [as |-> "nothing"]
       ELSE IF found.card.is_composite /\ found.card.composite_definition.present
       THEN [as |-> "composite", nodes |-> found.card.composite_definition.nodes,
             edges |-> found.card.composite_definition.edges]
       ELSE [as |-> "base",
             url |-> IF found.card.url_ext # "" THEN found.card.url_ext ELSE found.card.url]

\* What the step of BeginNode shows of the card it resolved: a failure of the
\* step with 404, the nested activation of a composite's graph (or the failure
\* of the recursion limit), or the address the request is posted to.
ActsOn(card) ==
    CASE card.as = "nothing" ->
            /\ ret'.kind = "response" /\ ret'.status = "failed"
            /\ ret'.logs[Len(ret'.logs)].nodeId = NextNode.id
            /\ ret'.logs[Len(ret'.logs)].output =
                   VDict([error |-> VDict([message |-> VStr("Agent not found during execution."),
                                           code |-> VInt(404)])])
      [] card.as = "composite" ->
            IF Len(stack) >= MaxDepth THEN ret'.kind = "HTTPException"
            ELSE /\ Len(stack') = Len(stack) + 1
                 /\ stack'[Len(stack')].nodes = card.nodes
                 /\ stack'[Len(stack')].edges = card.edges
                 /\ stack'[Len(stack)].pc = "in_composite"
      [] card.as = "base" ->
            /\ Len(calls') = Len(calls) + 1
            /\ calls'[Len(calls')].url = card.url
            /\ calls'[Len(calls')].node_id = NextNode.id

\* The list handed to the outermost activation when run_workflow started it.
ListAtStart == stack[1].all_agents_cache

ResolvesAtStartStep ==
    /\ (request = NoRequest /\ request' # NoRequest) =>
           \A i \in DOMAIN stack' : stack'[i].all_agents_cache = ALL_AGENTS_CACHE
    /\ (stack # <<>> /\ stack' # <<>>) =>
           \A i \in DOMAIN stack' : stack'[i].all_agents_cache = ListAtStart
    /\ (Running("loop") /\ Top.pos <= Len(Top.execution_order) /\ stack' # stack) =>
           ActsOn(ResolvedIn(NextNode.agent, ListAtStart))

\* C31: an execution resolves every one of its steps, those of nested
\* composites included, against the agent list that was current when
\* run_workflow started it: the list of every activation is the one the
\* outermost activation was handed, whatever refresh_agent_cache and
\* register_composite have made of ALL_AGENTS_CACHE in the meantime, and
\* each step acts on the card its name has in that list.
C31_ResolvesAgainstListAtStart == [][ResolvesAtStartStep]_vars

\* A step of beta has just failed with 404 in an execution that waited once,
\* for its first search, and beta is in ALL_AGENTS_CACHE: it was registered
\* while the execution was waiting.
C31_Witness ==
    /\ stack = <<>> /\ ret.kind = "response" /\ ret.status = "failed"
    /\ request \in LiveRequests /\ request.nodes[2].agent = "beta"
    /\ Len(ret.logs) = 2 /\ ret.logs[2].nodeId = "n2"
    /\ ResolvedIn("beta", ALL_AGENTS_CACHE).as = "composite"

\* The statuses of a log entry that tell of a step that did not fully succeed.
Troubled == {"error", "failed", "partial_success"}

\* The verdict of a response agrees with its log.
VerdictAgreesWithLog(r) ==
    LET statuses == {r.logs[i].status : i \in DOMAIN r.logs}
        last     == r.logs[Len(r.logs)].status
    IN /\ r.status \in {"completed", "failed", "partial_success"}
       /\ r.status = "completed" <=> statuses \cap Troubled = {}
       /\ r.status = "failed" <=> (r.logs # <<>> /\ last \in {"error", "failed"})
       /\ r.status = "partial_success" => "partial_success" \in statuses

\* C32: in every response an activation returns, nested activations included,
\* the verdict agrees with the log: it is completed iff no entry has status
\* error, failed or partial_success; it is failed iff the last entry has
\* status error or failed; otherwise it is partial_success, and then an entry
\* has status partial_success.
C32_VerdictAgreesWithLog ==
    /\ ret.kind = "response" => VerdictAgreesWithLog(ret)
    /\ resp.kind = "response" => VerdictAgreesWithLog(resp)

\* A nested activation has just returned partial_success, after a fan-out of
\* which some items failed and a search that succeeded.
C32_Witness ==
    /\ Len(stack) >= 1 /\ ret.kind = "response"
    /\ ret.status = "partial_success"
    /\ Len(ret.logs) = 2
    /\ IsFanOutEntry(ret.logs[1]) /\ ret.logs[1].status = "partial_success"
    /\ ret.logs[2].status = "success"

=============================================================================
